---- MODULE Spec2Model ----
(***************************************************************************)
(* A model of the sinterklaas repository.  Four components, each with its  *)
(* own specification: the HeyGen video clients (Spec, PollSpec,            *)
(* PollLiveSpec, ProgressSpec), AudioGenerator (AudioSpec),                *)
(* LetterGenerator (LetterSpec) and the streamlit script app.py (AppSpec). *)
(* The video clients:                                                      *)
(* VideoGenerator (video_generator.py, API v2) and VideoGeneratorV1        *)
(* (video_generator_v1.py).  generate() runs upload -> job start -> poll   *)
(* loop in one thread; every HTTP request, the temp file and time.sleep    *)
(* are the points where the environment acts, so each is an action.        *)
(* Between two calls of generate the caller can call list_avatars (v2).    *)
(*                                                                         *)
(* Python values: None is the string NoneVal, str values are strings, a    *)
(* dict key that is missing is the string Absent.  st.info calls are not   *)
(* recorded; st.error, st.warning, st.success and status_text.text are     *)
(* (variable ui), and so is every progress_bar update (variable bar).      *)
(***************************************************************************)
EXTENDS Integers, Sequences, FiniteSets, TLC

VARIABLES
    impl,            \* "v2": VideoGenerator, "v1": VideoGeneratorV1
    avatar_type,     \* self.avatar_type of VideoGeneratorV1 (v2 has none)
    avatars,         \* outcome of the last list_avatars call
    pc,              \* position of the single thread of control
    audio,           \* the audio_bytes argument of generate: [kind, len]
    consumed,        \* an unseekable stream has been read to its end
    temp,            \* the NamedTemporaryFile of _upload_asset: [exists, size]
    upload,          \* outcome of _upload_asset: [how, value]
    video_id,        \* the job identifier the poller polls
    reqs,            \* HTTP requests sent so far, in order: [ep, arg]
    provider,        \* the status endpoint: [mode, future]
    answers,         \* status responses received so far, in order
    sleep_for,       \* argument of the time.sleep call being executed
    waits,           \* durations of the completed time.sleep calls
    progress_value,  \* local progress_value of _poll_for_completion
    bar,             \* values shown by the progress bar, in order
    ui,              \* streamlit reports, in order: [fn, msg, arg]
    ret,             \* outcome of the entry call: [how, value]
    start,           \* the job start response and what was made of it
    generator,       \* the AudioGenerator instance: which fields are set
    request,         \* arguments of AudioGenerator.generate
    apc,             \* position of the thread inside AudioGenerator.generate
    attempts,        \* text-to-speech provider calls so far, in order
    printed,         \* print() lines of AudioGenerator, in order
    speech,          \* outcome of AudioGenerator.generate: [how, value]
    text,            \* the text argument of LetterGenerator._process_text
    lpc,             \* position of the thread inside LetterGenerator
    letter,          \* what _process_text returned and _build_html rendered
    config,          \* app.py: which generators were initialised
    session_state,   \* st.session_state: the keys app.py writes
    widget_state,    \* values of the keyed widgets streamlit keeps
    rendered,        \* the page: what each place of it holds
    rerun,           \* a script run is due: page load or st.rerun()
    event,           \* the last thing the user did on the page
    media,           \* what the last run's media-generation step did
    run,             \* the run that waits in a call: [at, u, rendered, media]
    queued,          \* the interaction whose run is due
    interactions     \* how often the user has used a widget in the session

\* The variables of the video clients, of AudioGenerator, of LetterGenerator.
videoVars == <<impl, avatar_type, avatars, pc, audio, consumed, temp, upload, video_id, reqs,
               provider, answers, sleep_for, waits, progress_value, bar, ui,
               ret, start>>

audioVars == <<generator, request, apc, attempts, printed, speech>>

letterVars == <<text, lpc, letter>>

\* The variables of the streamlit script app.py.
appVars == <<config, session_state, widget_state, rendered, rerun, event,
             media, run, queued, interactions>>

vars == <<videoVars, audioVars, letterVars, appVars>>

----------------------------------------------------------------------------
(* Bounds of the model *)

\* status queries of one poll loop (the loop itself has no bound)
MaxPolls == 4
\* length of a scripted sequence of status responses
MaxScript == 3
\* status queries of a poll loop entered through generate
MaxGenPolls == 2
\* length in bytes of the audio payload
MaxLen == 1
\* length in tokens of the raw text of a letter
MaxText == 3
\* number of sentences of a letter built from whole sentences
MaxSentences == 8
\* number of sign-off words of a text made of sign-off words only
MaxSignOff == 6
\* length of the run of pending responses that opens a long script
MaxPending == 19
\* length of what follows that run
MaxTail == 2
\* number of list_avatars calls on one client
MaxListings == 2

----------------------------------------------------------------------------
(* Python values *)

NoneVal == "None"
Absent == "<absent>"

\* `not x` for the values an identifier can take (None and "" are falsy)
Falsy(x) == x \in {NoneVal, ""}

Min(a, b) == IF a <= b THEN a ELSE b

Report(fn, msg, arg) == [fn |-> fn, msg |-> msg, arg |-> arg]

\* list_avatars has not been called.
NoAvatars == [how |-> "none", none |-> TRUE, list |-> <<>>]

\* Values of the avatar_type argument of VideoGeneratorV1.
AvatarTypes == {"avatar", "photo", "Photo", "studio"}

\* str.lower() on those values.
Lower(t) == IF t = "Photo" THEN "photo" ELSE t

\* VideoGeneratorV1.__init__ with valid api_key and avatar_id: the type is
\* lowered; one that is neither avatar nor photo is reported and replaced.
ConstructV1(t) ==
    IF Lower(t) \notin {"avatar", "photo"}
    THEN [avatar_type |-> "avatar",
          ui |-> <<Report("st.warning", "Onbekend avatar_type", t)>>]
    ELSE [avatar_type |-> Lower(t), ui |-> <<>>]

Returned(v) == [how |-> "return", value |-> v]
Raised(e) == [how |-> "raise", value |-> e]
Running == [how |-> "running", value |-> NoneVal]

\* Before _start_generation_* has been called.
NoStart == [how |-> "none", value |-> NoneVal,
            resp |-> [code |-> 0, has_data |-> FALSE, has_id |-> FALSE,
                      id |-> Absent]]

\* An Optional[str] of the letter generator: None, or a str held as the
\* sequence of its tokens.
NoneStr == [none |-> TRUE, str |-> <<>>]
Str(s) == [none |-> FALSE, str |-> s]

\* An audio stream: which provider made it, for which text, and whether the
\* silence padding was added.
NoAudio == [provider |-> "none", text |-> "", padded |-> FALSE]
\* Outcomes of AudioGenerator.generate; the message of an exception is the
\* sequence of the parts of its f-string.
NoSpeech == [how |-> "running", audio |-> NoAudio, etype |-> "",
             error |-> <<>>]
SpeechReturned(a) == [how |-> "return", audio |-> a, etype |-> "",
                      error |-> <<>>]
SpeechRaised(t, msg) == [how |-> "raise", audio |-> NoAudio, etype |-> t,
                         error |-> msg]
\* Before _process_text has been called.
NoLetter == [how |-> "none", greeting |-> NoneStr, paragraphs |-> <<>>,
             html |-> <<>>]

\* The state of AudioGenerator while the model runs another component.
AudioIdle ==
    /\ generator = [elevenlabs_client |-> NoneVal,
                    elevenlabs_voice_id |-> NoneVal,
                    openai_client |-> NoneVal]
    /\ request = [elevenlabs_api_key |-> NoneVal,
                  elevenlabs_voice_id |-> NoneVal,
                  openai_api_key |-> NoneVal,
                  text |-> "", prefer_elevenlabs |-> TRUE]
    /\ apc = "idle"
    /\ attempts = <<>>
    /\ printed = <<>>
    /\ speech = NoSpeech

\* The state of LetterGenerator while the model runs another component.
LetterIdle ==
    /\ text = <<>>
    /\ lpc = "idle"
    /\ letter = NoLetter

\* A text key of st.session_state: not set, or set to an Optional[str].
KeyAbsent == [absent |-> TRUE, none |-> TRUE, str |-> <<>>]
Stored(v) == [absent |-> FALSE, none |-> v.none, str |-> v.str]

\* st.session_state of a new session: none of the keys of app.py is set.
\* A flag is "absent", "True" or "False".
EmptySession ==
    [app_mode |-> "absent",
     sinterklaas_tekst |-> KeyAbsent,
     sinterklaas_tekst_aangepast |-> KeyAbsent,
     tekst_generatie_klaar |-> "absent",
     naam |-> "absent",
     generate_audio |-> "absent",
     generate_video |-> "absent",
     generate_letter |-> "absent",
     genereer_media |-> "absent"]

\* No keyed widget has been rendered: the text editor (key tekst_editor)
\* and the output checkboxes (keys output_audio and output_letter, with the
\* prefix manual_ in manual mode).
NoWidgets ==
    [tekst_editor |-> NoneStr, output_audio |-> "absent",
     output_letter |-> "absent"]

\* A run that did not enter the media-generation block.
NoMedia == [step |-> "skipped", audio |-> "none", html |-> <<>>]

\* No interaction: what a run started by the page load or by st.rerun()
\* is given.
NoInput == [ev |-> "none", naam |-> "", tekst |-> <<>>]

\* No run waits in a call.
NoRun == [at |-> "idle", u |-> NoInput, rendered |-> <<>>, media |-> NoMedia]

\* The state of the streamlit script while the model runs another
\* component.
AppIdle ==
    /\ config = [message_gen |-> FALSE, audio_gen |-> FALSE]
    /\ session_state = EmptySession
    /\ widget_state = NoWidgets
    /\ rendered = <<>>
    /\ rerun = FALSE
    /\ event = "none"
    /\ media = NoMedia
    /\ run = NoRun
    /\ queued = NoInput
    /\ interactions = 0

----------------------------------------------------------------------------
(* The poller: _poll_for_completion *)

\* time.sleep(5) in every non-returning branch of the loop
PollInterval == 5
\* progress_value = min(progress_value + 5, 90); progress_bar.progress(100)
ProgressStep == 5
ProgressCap == 90
ProgressDone == 100

\* What one status query can bring: an exception from requests.get or
\* response.json(), a JSON object without "data", or a data object.
PollExc == [kind |-> "exc", status |-> Absent, video_url |-> Absent, error |-> Absent]
PollNoData == [kind |-> "nodata", status |-> Absent, video_url |-> Absent, error |-> Absent]
PollData(s, u, e) == [kind |-> "data", status |-> s, video_url |-> u, error |-> e]

NonTerminalStatuses == {"pending", "processing", "waiting", "queued"}

PollResponses ==
    {PollExc, PollNoData}
    \cup {PollData(s, Absent, Absent) : s \in NonTerminalStatuses}
    \cup {PollData("completed", u, Absent) : u \in {Absent, "https://video/1"}}
    \cup {PollData("failed", Absent, e) : e \in {Absent, "render error"}}

IsTerminal(r) == r.kind = "data" /\ r.status \in {"completed", "failed"}

\* dict.get(key) and dict.get(key, default)
Get(v) == IF v = Absent THEN NoneVal ELSE v
GetOr(v, d) == IF v = Absent THEN d ELSE v

Sleeping(reports, pv, shown) ==
    [act |-> "sleep", secs |-> PollInterval, value |-> NoneVal,
     ui |-> reports, pv |-> pv, bar |-> shown]

Returning(v, reports, pv, shown) ==
    [act |-> "return", secs |-> 0, value |-> v,
     ui |-> reports, pv |-> pv, bar |-> shown]

\* One iteration of `while True` of VideoGenerator._poll_for_completion,
\* from the response to the time.sleep call or the return.
PollIterationV2(r, pv) ==
    IF r.kind = "exc" THEN
        Sleeping(<<Report("st.error", "Polling fout", "")>>, pv, <<>>)
    ELSE IF r.kind = "nodata" THEN
        Sleeping(<<Report("st.warning", "Wachten op data", "")>>, pv, <<>>)
    ELSE IF r.status = "completed" THEN
        Returning(Get(r.video_url),
                  <<Report("status_text", "Status: Klaar!", ""),
                    Report("st.success", "Video is klaar!", "")>>,
                  pv, <<ProgressDone>>)
    ELSE IF r.status = "failed" THEN
        Returning(NoneVal,
                  <<Report("st.error", "Renderen mislukt",
                           GetOr(r.error, "Onbekende fout"))>>,
                  pv, <<>>)
    ELSE IF r.status \in {"processing", "pending", "waiting"} THEN
        LET nv == Min(pv + ProgressStep, ProgressCap) IN
        Sleeping(<<Report("status_text", "Status: ... (even geduld)", r.status)>>,
                 nv, <<nv>>)
    ELSE
        Sleeping(<<Report("status_text", "Status:", r.status)>>, pv, <<>>)

\* A V1 loop that gives up on a status it does not know.
PollIterationV1_UnknownReturns(r, pv) ==
    IF r.kind = "data" /\ r.status \notin {"pending", "processing", "waiting",
                                            "completed", "failed"}
    THEN Returning(NoneVal, <<Report("status_text", "Status:", r.status)>>,
                   pv, <<>>)
    ELSE IF r.kind = "exc" THEN
        Sleeping(<<Report("st.error", "Polling fout", "")>>, pv, <<>>)
    ELSE IF r.kind = "nodata" THEN
        Sleeping(<<Report("status_text", "Wachten op data", "")>>, pv, <<>>)
    ELSE IF r.status = "completed" THEN
        Returning(Get(r.video_url),
                  <<Report("status_text", "Status: Klaar!", ""),
                    Report("st.success", "Video is klaar!", "")>>,
                  pv, <<ProgressDone>>)
    ELSE IF r.status = "failed" THEN
        Returning(NoneVal,
                  <<Report("st.error", "Renderen mislukt",
                           GetOr(r.error, "Onbekende fout"))>>,
                  pv, <<>>)
    ELSE
        LET nv == Min(pv + ProgressStep, ProgressCap) IN
        Sleeping(<<Report("status_text", "Status: ... (even geduld)", r.status)>>,
                 nv, <<nv>>)

\* The same for VideoGeneratorV1._poll_for_completion.
PollIterationV1(r, pv) ==
    IF r.kind = "exc" THEN
        Sleeping(<<Report("st.error", "Polling fout", "")>>, pv, <<>>)
    ELSE IF r.kind = "nodata" THEN
        Sleeping(<<Report("status_text", "Wachten op data", "")>>, pv, <<>>)
    ELSE IF r.status = "completed" THEN
        Returning(Get(r.video_url),
                  <<Report("status_text", "Status: Klaar!", ""),
                    Report("st.success", "Video is klaar!", "")>>,
                  pv, <<ProgressDone>>)
    ELSE IF r.status = "failed" THEN
        Returning(NoneVal,
                  <<Report("st.error", "Renderen mislukt",
                           GetOr(r.error, "Onbekende fout"))>>,
                  pv, <<>>)
    ELSE
        LET nv == Min(pv + ProgressStep, ProgressCap) IN
        Sleeping(<<Report("status_text", "Status: ... (even geduld)", r.status)>>,
                 nv, <<nv>>)


\* Variants of PollIteration with one branch changed; none is used by the
\* model itself.
PollIteration_CompletedContinues(im, r, pv) ==
    IF r.kind = "data" /\ r.status = "completed"
    THEN Sleeping(<<Report("status_text", "Status:", r.status)>>, pv, <<>>)
    ELSE IF im = "v2" THEN PollIterationV2(r, pv) ELSE PollIterationV1(r, pv)

PollIteration_FailedDropsMessage(im, r, pv) ==
    IF r.kind = "data" /\ r.status = "failed"
    THEN Returning(NoneVal,
                   <<Report("st.error", "Renderen mislukt", "Onbekende fout")>>,
                   pv, <<>>)
    ELSE IF im = "v2" THEN PollIterationV2(r, pv) ELSE PollIterationV1(r, pv)

PollIteration_ExceptionAborts(im, r, pv) ==
    IF r.kind = "exc"
    THEN Returning(NoneVal, <<Report("st.error", "Polling fout", "")>>, pv, <<>>)
    ELSE IF im = "v2" THEN PollIterationV2(r, pv) ELSE PollIterationV1(r, pv)

PollIteration_NoDataGivesUp(im, r, pv) ==
    IF r.kind = "nodata"
    THEN Returning(NoneVal, <<Report("st.warning", "Wachten op data", "")>>, pv, <<>>)
    ELSE IF im = "v2" THEN PollIterationV2(r, pv) ELSE PollIterationV1(r, pv)

PollIteration_FailedContinues(im, r, pv) ==
    IF r.kind = "data" /\ r.status = "failed"
    THEN Sleeping(<<Report("status_text", "Status:", r.status)>>, pv, <<>>)
    ELSE IF im = "v2" THEN PollIterationV2(r, pv) ELSE PollIterationV1(r, pv)

\* An exception handler that retries at once (time.sleep(0)).
PollIteration_ExceptionNoWait(im, r, pv) ==
    IF r.kind = "exc"
    THEN [act |-> "sleep", secs |-> 0, value |-> NoneVal,
          ui |-> <<Report("st.error", "Polling fout", "")>>, pv |-> pv,
          bar |-> <<>>]
    ELSE IF im = "v2" THEN PollIterationV2(r, pv) ELSE PollIterationV1(r, pv)

\* A status that is not known ends the loop as a failure.
PollIteration_UnknownFails(im, r, pv) ==
    IF r.kind = "data" /\ r.status \notin {"pending", "processing",
                                            "completed", "failed"}
    THEN Returning(NoneVal,
                   <<Report("st.error", "Renderen mislukt", r.status)>>,
                   pv, <<>>)
    ELSE IF im = "v2" THEN PollIterationV2(r, pv) ELSE PollIterationV1(r, pv)

\* Progress that is not capped: progress_value + 5 on every pending answer.
PollIteration_ProgressUncapped(im, r, pv) ==
    IF r.kind = "data" /\ r.status \in {"pending", "processing"}
    THEN Sleeping(<<Report("status_text", "Status: ... (even geduld)",
                           r.status)>>,
                  pv + ProgressStep, <<pv + ProgressStep>>)
    ELSE IF im = "v2" THEN PollIterationV2(r, pv) ELSE PollIterationV1(r, pv)

PollIteration(im, r, pv) ==
    IF im = "v2" THEN PollIterationV2(r, pv) ELSE PollIterationV1(r, pv)

StatusRequest(vid) == [ep |-> "status", arg |-> vid]

NumQueries == Cardinality({i \in DOMAIN reqs : reqs[i].ep = "status"})

\* The bound on the status queries of one loop (the code has none).  A
\* scripted provider bounds the loop by the length of its script.
PollBound ==
    IF provider.mode = "scripted" THEN Len(answers) + Len(provider.future)
    ELSE IF audio.kind = "none" THEN MaxPolls
    ELSE MaxGenPolls

\* The responses the status endpoint can give to the next query.
Offered ==
    IF provider.mode = "free" THEN PollResponses
    ELSE IF provider.future = <<>> THEN {}
    ELSE {Head(provider.future)}

\* requests.get(status_url) and the handling of its response.
PollQuery ==
    /\ pc = "poll_query"
    /\ Len(answers) < PollBound
    /\ \E r \in Offered :
        LET it == PollIteration(impl, r, progress_value) IN
        /\ reqs' = Append(reqs, StatusRequest(video_id))
        /\ answers' = Append(answers, r)
        /\ provider' = IF provider.mode = "free" THEN provider
                       ELSE [provider EXCEPT !.future = Tail(@)]
        /\ ui' = ui \o it.ui
        /\ bar' = bar \o it.bar
        /\ progress_value' = it.pv
        /\ IF it.act = "return"
           THEN /\ pc' = "done"
                /\ ret' = Returned(it.value)
                /\ sleep_for' = 0
           ELSE /\ pc' = "poll_sleep"
                /\ ret' = ret
                /\ sleep_for' = it.secs
    /\ UNCHANGED <<audioVars, letterVars, appVars>>
    /\ UNCHANGED <<start, impl, avatar_type, avatars,
                   audio, consumed, temp, upload, video_id, waits>>

\* time.sleep(5) returns and the loop starts its next iteration.
PollSleep ==
    /\ pc = "poll_sleep"
    /\ waits' = Append(waits, sleep_for)
    /\ sleep_for' = 0
    /\ pc' = "poll_query"
    /\ UNCHANGED <<audioVars, letterVars, appVars>>
    /\ UNCHANGED <<start, impl, avatar_type, avatars,
                   audio, consumed, temp, upload, video_id, reqs,
                   provider, answers, progress_value, bar, ui, ret>>

PollNext == PollQuery \/ PollSleep

\* The state at the entry of _poll_for_completion(video_id), after
\* st.progress(0) and progress_value = 0.
PollEntry(prov) ==
    /\ impl \in {"v2", "v1"}
    /\ avatar_type = (IF impl = "v1" THEN "avatar" ELSE NoneVal)
    /\ avatars = NoAvatars
    /\ pc = "poll_query"
    /\ audio = [kind |-> "none", len |-> 0]
    /\ consumed = FALSE
    /\ temp = [exists |-> FALSE, size |-> 0]
    /\ upload = [how |-> "none", value |-> NoneVal, code |-> 0]
    /\ video_id = "vid1"
    /\ reqs = <<>>
    /\ provider = prov
    /\ answers = <<>>
    /\ sleep_for = 0
    /\ waits = <<>>
    /\ progress_value = 0
    /\ bar = <<0>>
    /\ ui = <<>>
    /\ ret = Running
    /\ start = NoStart
    /\ AudioIdle
    /\ LetterIdle
    /\ AppIdle

FreeProvider == [mode |-> "free", future |-> <<>>]

PollInit == PollEntry(FreeProvider)

\* The poller against a provider that answers any way it likes.
PollSpec == PollInit /\ [][PollNext]_vars

----------------------------------------------------------------------------
(* generate: upload -> job start -> poll loop *)

\* What audio_bytes can be: bytes, io.BytesIO (has getvalue), a seekable
\* binary file object (read and seek), or an unseekable stream such as a
\* pipe (read only: seek raises io.UnsupportedOperation, an OSError).
AudioKinds == {"bytes", "bytesio", "file", "pipe"}

\* The number of bytes the getvalue / seek(0) + read / identity chain of
\* generate and _upload_asset obtains: a failed seek is ignored and read
\* then returns what is left of the stream.
ReadData(a, c) == IF a.kind = "pipe" /\ c THEN 0 ELSE a.len

\* `not data or len(data) == 0`
IsEmpty(n) == n = 0

\* VideoGeneratorV1._peek_audio ends with an unguarded audio_bytes.seek(0).
PeekRaises(im, a) == im = "v1" /\ a.kind = "pipe"

\* Variant of Generate without the check of the data read.
Generate_NoEmptyCheck ==
    /\ pc = "generate"
    /\ consumed' = (consumed \/ audio.kind = "pipe")
    /\ IF PeekRaises(impl, audio)
       THEN /\ ret' = Raised("UnsupportedOperation")
            /\ pc' = "done"
       ELSE /\ ret' = ret
            /\ pc' = "upload_asset"
    /\ UNCHANGED <<audioVars, letterVars, appVars>>
    /\ UNCHANGED <<start, impl, avatar_type, avatars,
                   audio, temp, upload, video_id, reqs, provider,
                   answers, sleep_for, waits, progress_value, bar, ui>>

\* generate up to the call of _upload_asset: read the data, refuse it when
\* it is empty.
Generate ==
    /\ pc = "generate"
    /\ consumed' = (consumed \/ audio.kind = "pipe")
    /\ IF PeekRaises(impl, audio)
       THEN /\ ret' = Raised("UnsupportedOperation")
            /\ pc' = "done"
            /\ ui' = ui
       ELSE IF IsEmpty(ReadData(audio, consumed))
       THEN /\ ui' = Append(ui, Report("st.error", "Audio data is leeg!", ""))
            /\ ret' = Returned(NoneVal)
            /\ pc' = "done"
       ELSE /\ ui' = ui
            /\ ret' = ret
            /\ pc' = "upload_asset"
    /\ UNCHANGED <<audioVars, letterVars, appVars>>
    /\ UNCHANGED <<start, impl, avatar_type, avatars,
                   audio, temp, upload, video_id, reqs, provider,
                   answers, sleep_for, waits, progress_value, bar>>

NoUpload == [how |-> "none", value |-> NoneVal, code |-> 0]

\* _upload_asset up to the call of _upload_file_to_api: create the temp
\* file, read the data, refuse it when empty, write it (the write can
\* raise OSError); every exit goes through the finally block.
UploadAsset ==
    /\ pc = "upload_asset"
    /\ consumed' = (consumed \/ audio.kind = "pipe")
    /\ LET n == ReadData(audio, consumed) IN
       IF IsEmpty(n)
       THEN /\ temp' = [exists |-> TRUE, size |-> 0]
            /\ ui' = Append(ui, Report("st.error",
                        "Geen audiogegevens beschikbaar om te uploaden.", ""))
            /\ upload' = [how |-> "returning", value |-> NoneVal, code |-> 0]
            /\ pc' = "upload_cleanup"
       ELSE \E written \in BOOLEAN :
            /\ ui' = ui
            /\ IF written
               THEN /\ temp' = [exists |-> TRUE, size |-> n]
                    /\ upload' = [how |-> "running", value |-> NoneVal, code |-> 0]
                    /\ pc' = "upload_file"
               ELSE /\ temp' = [exists |-> TRUE, size |-> 0]
                    /\ upload' = [how |-> "raising", value |-> "OSError", code |-> 0]
                    /\ pc' = "upload_cleanup"
    /\ UNCHANGED <<audioVars, letterVars, appVars>>
    /\ UNCHANGED <<start, impl, avatar_type, avatars,
                   audio, video_id, reqs, provider, answers, sleep_for,
                   waits, progress_value, bar, ret>>

\* What requests.post(upload_url, data=file_content) can bring: an exception
\* (code 0), a status other than 200, or 200 with a JSON body.
HttpResponse(code, has_data, has_id, id) ==
    [code |-> code, has_data |-> has_data, has_id |-> has_id, id |-> id]

HttpResponses(ids) ==
    {HttpResponse(c, FALSE, FALSE, Absent) : c \in {0, 400, 500, 200}}
    \cup {HttpResponse(200, TRUE, FALSE, Absent)}
    \cup {HttpResponse(200, TRUE, TRUE, i) : i \in ids}

UploadResponses == HttpResponses({"", "asset1", NoneVal})

\* The handling of the upload response in _upload_file_to_api: the value
\* returned and the reports made.  V2 reports the traceback of an exception
\* in a second st.error.
UploadResult(im, resp) ==
    IF resp.code = 0 THEN
        [value |-> NoneVal,
         ui |-> <<Report("st.error", "Exception bij upload", "")>>
                \o (IF im = "v2" THEN <<Report("st.error", "traceback", "")>>
                    ELSE <<>>)]
    ELSE IF resp.code = 200 THEN
        IF resp.has_data /\ resp.has_id
        THEN [value |-> resp.id,
              ui |-> <<Report("st.success", "Audio geupload! Asset ID:", resp.id)>>]
        ELSE [value |-> NoneVal,
              ui |-> <<Report("st.error", "Onverwacht response format", "")>>]
    ELSE
        [value |-> NoneVal,
         ui |-> <<Report("st.error", "Upload Error", ToString(resp.code))>>]

\* The body of the upload request: the raw bytes of the file (data=...),
\* not multipart/form-data.
UploadRequest == [ep |-> "upload", arg |-> "raw"]

\* Variant of UploadFileToApi that posts again after an HTTP 400 answer.
UploadFileToApi_RetriesAfter4xx ==
    /\ pc = "upload_file"
    /\ temp.exists /\ temp.size # 0
    /\ \E resp \in UploadResponses :
          LET out == UploadResult(impl, resp) IN
          /\ reqs' = Append(reqs, UploadRequest)
          /\ ui' = ui \o out.ui
          /\ upload' = [how |-> IF resp.code = 400 THEN "running" ELSE "returning",
                        value |-> out.value, code |-> resp.code]
          /\ pc' = IF resp.code = 400 THEN "upload_file" ELSE "upload_cleanup"
    /\ Cardinality({i \in DOMAIN reqs : reqs[i].ep = "upload"}) < 5
    /\ UNCHANGED <<audioVars, letterVars, appVars>>
    /\ UNCHANGED <<start, impl, avatar_type, avatars,
                   audio, consumed, temp, video_id, provider, answers,
                   sleep_for, waits, progress_value, bar, ret>>

\* _upload_file_to_api: the two checks of the file, then one POST and the
\* handling of its response.
UploadFileToApi ==
    /\ pc = "upload_file"
    /\ IF ~ temp.exists
       THEN /\ ui' = Append(ui, Report("st.error", "Bestand niet gevonden", ""))
            /\ upload' = [how |-> "returning", value |-> NoneVal, code |-> 0]
            /\ reqs' = reqs
       ELSE IF temp.size = 0
       THEN /\ ui' = Append(ui, Report("st.error", "Bestand is leeg!", ""))
            /\ upload' = [how |-> "returning", value |-> NoneVal, code |-> 0]
            /\ reqs' = reqs
       ELSE \E resp \in UploadResponses :
            LET out == UploadResult(impl, resp) IN
            /\ reqs' = Append(reqs, UploadRequest)
            /\ ui' = ui \o out.ui
            /\ upload' = [how |-> "returning", value |-> out.value,
                          code |-> resp.code]
    /\ pc' = "upload_cleanup"
    /\ UNCHANGED <<audioVars, letterVars, appVars>>
    /\ UNCHANGED <<start, impl, avatar_type, avatars,
                   audio, consumed, temp, video_id, provider, answers,
                   sleep_for, waits, progress_value, bar, ret>>

\* The finally block of _upload_asset (os.remove can raise, which is
\* swallowed), the return or the exception leaving _upload_asset, and
\* generate's check of the asset id.
UploadCleanup ==
    /\ pc = "upload_cleanup"
    /\ IF temp.exists
       THEN \E removed \in BOOLEAN : temp' = [temp EXCEPT !.exists = ~ removed]
       ELSE temp' = temp
    /\ IF upload.how = "raising"
       THEN /\ upload' = [upload EXCEPT !.how = "raised"]
            /\ ret' = Raised(upload.value)
            /\ ui' = ui
            /\ pc' = "done"
       ELSE /\ upload' = [upload EXCEPT !.how = "returned"]
            /\ IF Falsy(upload.value)
               THEN /\ ui' = Append(ui, Report("st.error",
                         "Audio upload mislukt, kan niet starten met genereren.", ""))
                    /\ ret' = Returned(NoneVal)
                    /\ pc' = "done"
               ELSE /\ ui' = ui
                    /\ ret' = ret
                    /\ pc' = "start_generation"
    /\ UNCHANGED <<audioVars, letterVars, appVars>>
    /\ UNCHANGED <<start, impl, avatar_type, avatars,
                   audio, consumed, video_id, reqs, provider, answers,
                   sleep_for, waits, progress_value, bar>>

StartResponses == HttpResponses({"", "vid1", NoneVal})

\* A response handler that takes whatever data.get("video_id") gives.
StartResult_AcceptsMissingId(im, resp) ==
    IF resp.code = 200 /\ resp.has_data
    THEN [value |-> resp.id,
          ui |-> <<Report("st.success", "Job gestart! Video ID:", resp.id)>>]
    ELSE [value |-> NoneVal,
          ui |-> <<Report("st.error", "Generatie mislukt",
                          ToString(resp.code))>>]

\* The handling of the job-start response in _start_generation_v2 and
\* _start_generation_v1.
StartResult(im, resp) ==
    IF resp.code = 0 THEN
        [value |-> NoneVal,
         ui |-> IF im = "v2"
                THEN <<Report("st.error", "Fout bij aanroep", ""),
                       Report("st.error", "traceback", "")>>
                ELSE <<Report("st.error", "Fout bij v1 video generatie", "")>>]
    ELSE IF resp.code = 200 THEN
        IF resp.has_data /\ resp.has_id
        THEN [value |-> resp.id,
              ui |-> <<Report("st.success",
                              IF im = "v2" THEN "Job gestart! Video ID:"
                              ELSE "v1 job gestart! Video ID:", resp.id)>>]
        ELSE [value |-> NoneVal,
              ui |-> <<Report("st.error", "Onverwacht response format", "")>>]
    ELSE
        [value |-> NoneVal,
         ui |-> <<Report("st.error", "Generatie mislukt", ToString(resp.code))>>]

\* The character of the job-start payload: VideoGenerator names an avatar,
\* VideoGeneratorV1 a photo when its avatar_type is photo.
Character ==
    IF impl = "v1" /\ avatar_type = "photo" THEN "photo" ELSE "avatar"

\* A start request that names a fixed asset instead of the uploaded one.
StartRequest_IgnoresAsset(asset) ==
    [ep |-> "start", arg |-> "asset0", character |-> Character]

\* The job-start request: the character and the uploaded audio asset.
StartRequest(asset) ==
    [ep |-> "start", arg |-> asset, character |-> Character]

\* A job start that tries again after a response other than 200.
StartGeneration_RetriesAfterError ==
    /\ pc = "start_generation"
    /\ \E resp \in StartResponses :
          LET out == StartResult(impl, resp) IN
          /\ reqs' = Append(reqs, StartRequest(upload.value))
          /\ ui' = ui \o out.ui
          /\ video_id' = out.value
          /\ start' = [how |-> "returned", value |-> out.value, resp |-> resp]
          /\ IF /\ resp.code \notin {0, 200}
                /\ Cardinality({i \in DOMAIN reqs : reqs[i].ep = "start"}) < 2
             THEN /\ ret' = ret
                  /\ pc' = "start_generation"
                  /\ bar' = bar
             ELSE IF Falsy(out.value)
             THEN /\ ret' = Returned(NoneVal)
                  /\ pc' = "done"
                  /\ bar' = bar
             ELSE /\ ret' = ret
                  /\ pc' = "poll_query"
                  /\ bar' = <<0>>
    /\ progress_value' = 0
    /\ UNCHANGED <<audioVars, letterVars, appVars>>
    /\ UNCHANGED <<impl, avatar_type, avatars,
                   audio, consumed, temp, upload, provider, answers,
                   sleep_for, waits>>

\* _start_generation_v2 / _start_generation_v1: one POST naming the audio
\* asset; then generate's check of the video id and, when there is one, the
\* entry of _poll_for_completion (st.progress(0), progress_value = 0).
StartGeneration ==
    /\ pc = "start_generation"
    /\ \E resp \in StartResponses :
          LET out == StartResult(impl, resp) IN
          /\ reqs' = Append(reqs, StartRequest(upload.value))
          /\ ui' = ui \o out.ui
          /\ video_id' = out.value
          /\ start' = [how |-> "returned", value |-> out.value, resp |-> resp]
          /\ IF Falsy(out.value)
             THEN /\ ret' = Returned(NoneVal)
                  /\ pc' = "done"
                  /\ bar' = bar
             ELSE /\ ret' = ret
                  /\ pc' = "poll_query"
                  /\ bar' = <<0>>
    /\ progress_value' = 0
    /\ UNCHANGED <<audioVars, letterVars, appVars>>
    /\ UNCHANGED <<impl, avatar_type, avatars,
                   audio, consumed, temp, upload, provider, answers,
                   sleep_for, waits>>

\* What requests.get(avatars_url) can bring: an exception (code 0), a status
\* other than 200, or 200 with a body: one that is not JSON, a JSON object
\* without data, with data null, with data that has no avatars, or with
\* data.avatars, which is null or a list.
AvatarsResponses ==
    {[code |-> c, body |-> "none", none |-> TRUE, list |-> <<>>] :
        c \in {0, 400, 500}}
    \cup {[code |-> 200, body |-> b, none |-> TRUE, list |-> <<>>] :
            b \in {"not_json", "no_data", "data_null", "no_avatars"}}
    \cup {[code |-> 200, body |-> "avatars", none |-> TRUE, list |-> <<>>]}
    \cup {[code |-> 200, body |-> "avatars", none |-> FALSE, list |-> l] :
            l \in {<<>>, <<"a1">>}}

\* The handling of the response in list_avatars: the value returned and the
\* reports made.  response.json() on a body that is not JSON and
\* `"avatars" in None` raise inside the try block.
ListAvatarsResult(resp) ==
    IF resp.code = 0 \/ (resp.code = 200 /\ resp.body \in {"not_json", "data_null"})
    THEN [none |-> TRUE, list |-> <<>>,
          ui |-> <<Report("st.error", "Exception bij ophalen avatars", "")>>]
    ELSE IF resp.code # 200
    THEN [none |-> TRUE, list |-> <<>>,
          ui |-> <<Report("st.error", "Fout bij ophalen avatars",
                          ToString(resp.code))>>]
    ELSE IF resp.body = "avatars"
    THEN [none |-> resp.none, list |-> resp.list, ui |-> <<>>]
    ELSE [none |-> TRUE, list |-> <<>>,
          ui |-> <<Report("st.error", "Onverwacht API formaat", "")>>]

\* VideoGenerator.list_avatars, called while the thread is not inside
\* generate: one GET request, answered inside the step.
ListAvatars ==
    /\ impl = "v2"
    /\ pc \in {"generate", "done"}
    /\ Cardinality({i \in DOMAIN reqs : reqs[i].ep = "avatars"}) < MaxListings
    /\ \E resp \in AvatarsResponses :
          LET out == ListAvatarsResult(resp) IN
          /\ reqs' = Append(reqs, [ep |-> "avatars", arg |-> NoneVal])
          /\ ui' = ui \o out.ui
          /\ avatars' = [how |-> "return", none |-> out.none,
                         list |-> out.list]
    /\ UNCHANGED <<audioVars, letterVars, appVars>>
    /\ UNCHANGED <<impl, avatar_type, pc, audio, consumed, temp, upload,
                   video_id, provider, answers, sleep_for, waits,
                   progress_value, bar, ret, start>>

\* The state after the construction of the client, with the argument of the
\* generate call to come: VideoGenerator.__init__ reports nothing,
\* VideoGeneratorV1.__init__ may have warned about the avatar type.
Init ==
    /\ impl \in {"v2", "v1"}
    /\ \E t \in AvatarTypes :
          LET made == IF impl = "v1" THEN ConstructV1(t)
                      ELSE [avatar_type |-> NoneVal, ui |-> <<>>] IN
          /\ avatar_type = made.avatar_type
          /\ ui = made.ui
    /\ avatars = NoAvatars
    /\ pc = "generate"
    /\ audio \in [kind : AudioKinds, len : 0..MaxLen]
    /\ consumed = FALSE
    /\ temp = [exists |-> FALSE, size |-> 0]
    /\ upload = NoUpload
    /\ video_id = NoneVal
    /\ reqs = <<>>
    /\ provider = FreeProvider
    /\ answers = <<>>
    /\ sleep_for = 0
    /\ waits = <<>>
    /\ progress_value = 0
    /\ bar = <<>>
    /\ ret = Running
    /\ start = NoStart
    /\ AudioIdle
    /\ LetterIdle
    /\ AppIdle

Next ==
    \/ ListAvatars
    \/ Generate
    \/ UploadAsset
    \/ UploadFileToApi
    \/ UploadCleanup
    \/ StartGeneration
    \/ PollQuery
    \/ PollSleep

\* One client, one call of generate and calls of list_avatars before and
\* after it, against a provider that answers any way it likes.
Spec == Init /\ [][Next]_vars

\* Every sequence of at most MaxScript status responses.
Scripts == UNION {[1..n -> PollResponses] : n \in 0..MaxScript}

PollLiveInit ==
    \E s \in Scripts : PollEntry([mode |-> "scripted", future |-> s])

\* The poller against a provider whose responses are fixed in advance.  The
\* loop is one thread that is never descheduled for good: requests.get and
\* time.sleep(5) return, so a step that is possible is taken.
PollLiveSpec == PollLiveInit /\ [][PollNext]_vars /\ WF_vars(PollNext)

\* n times the answer "pending"
PendingRun(n) == [i \in 1..n |-> PollData("pending", Absent, Absent)]

\* A job that stays pending for up to MaxPending queries, followed by any
\* responses: long enough for progress_value to reach its cap.
LongScripts ==
    {PendingRun(n) \o t :
        n \in 0..MaxPending,
        t \in UNION {[1..k -> PollResponses] : k \in 0..MaxTail}}

ProgressInit ==
    \E s \in LongScripts : PollEntry([mode |-> "scripted", future |-> s])

\* The poller on a job that takes long.
ProgressSpec == ProgressInit /\ [][PollNext]_vars

----------------------------------------------------------------------------
(* AudioGenerator: text to speech with a fallback provider *)

\* The state of the video clients while the model runs another component.
VideoIdle ==
    /\ impl = "v2"
    /\ avatar_type = NoneVal
    /\ avatars = NoAvatars
    /\ pc = "idle"
    /\ audio = [kind |-> "none", len |-> 0]
    /\ consumed = FALSE
    /\ temp = [exists |-> FALSE, size |-> 0]
    /\ upload = NoUpload
    /\ video_id = NoneVal
    /\ reqs = <<>>
    /\ provider = FreeProvider
    /\ answers = <<>>
    /\ sleep_for = 0
    /\ waits = <<>>
    /\ progress_value = 0
    /\ bar = <<>>
    /\ ui = <<>>
    /\ ret = Running
    /\ start = NoStart

\* Values of an API key or voice id argument: None, empty, set.
KeyValues(v) == {NoneVal, "", v}
\* Texts to speak.
Texts == {"", "Lieve Jan"}
\* str(e) of an exception raised by a provider call.
ProviderErrors == {"quota exceeded", "timeout"}
\* What a provider call can bring: audio or an exception; and whether pydub
\* can pad the audio afterwards (ffmpeg present, mp3 decodable).
ProviderOutcomes ==
    [ok : {TRUE}, error : {""}, pad_ok : BOOLEAN]
    \cup [ok : {FALSE}, error : ProviderErrors, pad_ok : {FALSE}]

\* __init__: a client is made for every API key that is truthy; when the
\* ElevenLabs constructor raises, the warning is printed and the client
\* stays None.
Construct ==
    /\ apc = "init"
    /\ \E made \in BOOLEAN :
          LET wanted == ~Falsy(request.elevenlabs_api_key) IN
          /\ generator' =
                [elevenlabs_client |->
                     IF wanted /\ made THEN "ElevenLabs" ELSE NoneVal,
                 elevenlabs_voice_id |-> request.elevenlabs_voice_id,
                 openai_client |->
                     IF ~Falsy(request.openai_api_key) THEN "OpenAI"
                     ELSE NoneVal]
          /\ printed' =
                IF wanted /\ ~made
                THEN Append(printed,
                            "Warning: ElevenLabs client initialisatie mislukt")
                ELSE printed
    /\ apc' = "generate"
    /\ UNCHANGED <<request, attempts, speech>>
    /\ UNCHANGED <<videoVars, letterVars, appVars>>

\* `prefer_elevenlabs and self.elevenlabs_client and self.elevenlabs_voice_id`
UsesElevenlabs ==
    /\ request.prefer_elevenlabs
    /\ ~Falsy(generator.elevenlabs_client)
    /\ ~Falsy(generator.elevenlabs_voice_id)

NoEngineError ==
    SpeechRaised("ValueError",
                 <<"Geen audio engine beschikbaar. Configureer ElevenLabs of OpenAI API key.">>)

\* An entry that goes to ElevenLabs whenever it is configured.
AudioGenerate_IgnoresPreference ==
    /\ apc = "generate"
    /\ IF ~Falsy(generator.elevenlabs_client)
          /\ ~Falsy(generator.elevenlabs_voice_id)
       THEN apc' = "elevenlabs" /\ speech' = speech
       ELSE IF ~Falsy(generator.openai_client)
       THEN apc' = "openai" /\ speech' = speech
       ELSE apc' = "done" /\ speech' = NoEngineError
    /\ UNCHANGED <<generator, request, attempts, printed>>
    /\ UNCHANGED <<videoVars, letterVars, appVars>>

\* An entry that calls OpenAI without looking at self.openai_client.
AudioGenerate_NoEngineCheck ==
    /\ apc = "generate"
    /\ IF UsesElevenlabs
       THEN apc' = "elevenlabs" /\ speech' = speech
       ELSE apc' = "openai" /\ speech' = speech
    /\ UNCHANGED <<generator, request, attempts, printed>>
    /\ UNCHANGED <<videoVars, letterVars, appVars>>

\* generate, up to the first provider call: lines 71, 84 and 87.
AudioGenerate ==
    /\ apc = "generate"
    /\ IF UsesElevenlabs
       THEN apc' = "elevenlabs" /\ speech' = speech
       ELSE IF ~Falsy(generator.openai_client)
       THEN apc' = "openai" /\ speech' = speech
       ELSE apc' = "done" /\ speech' = NoEngineError
    /\ UNCHANGED <<generator, request, attempts, printed>>
    /\ UNCHANGED <<videoVars, letterVars, appVars>>

\* _add_silence_padding: 1.5 s of silence is added after the audio; when
\* pydub raises, the warning is printed and the audio is returned as it was.
AddSilencePadding(a, pad_ok) == [a EXCEPT !.padded = pad_ok]

\* The call made to a provider and what came of it.
Attempt(p, t, out) == [provider |-> p, input |-> t, outcome |-> out]

\* What _generate_elevenlabs and _generate_openai return when the provider
\* call succeeded.
ProviderResult(p, t, out) ==
    SpeechReturned(AddSilencePadding(
        [provider |-> p, text |-> t, padded |-> FALSE], out.pad_ok))

PaddingWarning == "Waarschuwing: Kon geen stilte toevoegen aan audio"

\* A ValueError that does not say what went wrong with ElevenLabs.
NoFallbackError_DropsMessage(error_msg) ==
    SpeechRaised("ValueError", <<"ElevenLabs fout en geen OpenAI fallback">>)

\* raise ValueError(f"ElevenLabs fout en geen OpenAI fallback: {error_msg}")
NoFallbackError(error_msg) ==
    SpeechRaised("ValueError",
                 <<"ElevenLabs fout en geen OpenAI fallback: ", error_msg>>)

\* A primary attempt whose failure is raised even when OpenAI is there.
GenerateElevenlabs_NeverFallsBack ==
    /\ apc = "elevenlabs"
    /\ \E out \in ProviderOutcomes :
          /\ attempts' = Append(attempts,
                                Attempt("elevenlabs", request.text, out))
          /\ IF out.ok
             THEN /\ speech' = ProviderResult("elevenlabs", request.text, out)
                  /\ printed' = IF out.pad_ok THEN printed
                                ELSE Append(printed, PaddingWarning)
                  /\ apc' = "done"
             ELSE /\ speech' = NoFallbackError(out.error)
                  /\ printed' = printed
                  /\ apc' = "done"
    /\ UNCHANGED <<generator, request>>
    /\ UNCHANGED <<videoVars, letterVars, appVars>>

\* The try block of generate: _generate_elevenlabs(text), and the handler
\* of its exception (fall back to OpenAI, or raise the ValueError).
GenerateElevenlabs ==
    /\ apc = "elevenlabs"
    /\ \E out \in ProviderOutcomes :
          /\ attempts' = Append(attempts,
                                Attempt("elevenlabs", request.text, out))
          /\ IF out.ok
             THEN /\ speech' = ProviderResult("elevenlabs", request.text, out)
                  /\ printed' = IF out.pad_ok THEN printed
                                ELSE Append(printed, PaddingWarning)
                  /\ apc' = "done"
             ELSE IF ~Falsy(generator.openai_client)
             THEN /\ speech' = speech
                  /\ printed' = Append(printed,
                                       "ElevenLabs fout, gebruik OpenAI TTS")
                  /\ apc' = "fallback"
             ELSE /\ speech' = NoFallbackError(out.error)
                  /\ printed' = printed
                  /\ apc' = "done"
    /\ UNCHANGED <<generator, request>>
    /\ UNCHANGED <<videoVars, letterVars, appVars>>

\* A secondary attempt that goes back to ElevenLabs when it fails.
GenerateOpenai_RetriesPrimary ==
    /\ apc \in {"openai", "fallback"}
    /\ \E out \in ProviderOutcomes :
          /\ attempts' = Append(attempts,
                                Attempt("openai", request.text, out))
          /\ IF out.ok
             THEN /\ speech' = ProviderResult("openai", request.text, out)
                  /\ printed' = IF out.pad_ok THEN printed
                                ELSE Append(printed, PaddingWarning)
                  /\ apc' = "done"
             ELSE IF Len(attempts) < 2
             THEN /\ speech' = speech
                  /\ printed' = printed
                  /\ apc' = "elevenlabs"
             ELSE /\ speech' = SpeechRaised("Exception", <<out.error>>)
                  /\ printed' = printed
                  /\ apc' = "done"
    /\ UNCHANGED <<generator, request>>
    /\ UNCHANGED <<videoVars, letterVars, appVars>>

\* A fallback that returns the OpenAI audio without the padding step.
GenerateOpenai_FallbackSkipsPadding ==
    /\ apc \in {"openai", "fallback"}
    /\ \E out \in ProviderOutcomes :
          /\ attempts' = Append(attempts,
                                Attempt("openai", request.text, out))
          /\ IF out.ok
             THEN /\ speech' =
                        IF apc = "fallback"
                        THEN SpeechReturned([provider |-> "openai",
                                             text |-> request.text,
                                             padded |-> FALSE])
                        ELSE ProviderResult("openai", request.text, out)
                  /\ printed' = IF out.pad_ok THEN printed
                                ELSE Append(printed, PaddingWarning)
                  /\ apc' = "done"
             ELSE /\ speech' = SpeechRaised("Exception", <<out.error>>)
                  /\ printed' = printed
                  /\ apc' = "done"
    /\ UNCHANGED <<generator, request>>
    /\ UNCHANGED <<videoVars, letterVars, appVars>>

\* _generate_openai(text), called at line 79 (fallback) or 85 (direct): its
\* audio is returned, its exception leaves generate.
GenerateOpenai ==
    /\ apc \in {"openai", "fallback"}
    /\ \E out \in ProviderOutcomes :
          /\ attempts' = Append(attempts,
                                Attempt("openai", request.text, out))
          /\ IF out.ok
             THEN /\ speech' = ProviderResult("openai", request.text, out)
                  /\ printed' = IF out.pad_ok THEN printed
                                ELSE Append(printed, PaddingWarning)
                  /\ apc' = "done"
             ELSE /\ speech' = SpeechRaised("Exception", <<out.error>>)
                  /\ printed' = printed
                  /\ apc' = "done"
    /\ UNCHANGED <<generator, request>>
    /\ UNCHANGED <<videoVars, letterVars, appVars>>

\* AudioGenerator(keys...) about to be constructed, generate(text,
\* prefer_elevenlabs) to be called on it.
AudioInit ==
    /\ VideoIdle
    /\ LetterIdle
    /\ AppIdle
    /\ generator = [elevenlabs_client |-> NoneVal,
                    elevenlabs_voice_id |-> NoneVal,
                    openai_client |-> NoneVal]
    /\ request \in [elevenlabs_api_key : KeyValues("el-key"),
                     elevenlabs_voice_id : KeyValues("voice1"),
                     openai_api_key : KeyValues("oa-key"),
                     text : Texts,
                     prefer_elevenlabs : BOOLEAN]
    /\ apc = "init"
    /\ attempts = <<>>
    /\ printed = <<>>
    /\ speech = NoSpeech

AudioNext ==
    \/ Construct
    \/ AudioGenerate
    \/ GenerateElevenlabs
    \/ GenerateOpenai

\* One AudioGenerator and one call of its generate, against providers that
\* answer any way they like.
AudioSpec == AudioInit /\ [][AudioNext]_vars

----------------------------------------------------------------------------
(* LetterGenerator: _process_text and _build_html *)

(***************************************************************************)
(* A str is the sequence of its tokens.  A token is one character (",",    *)
(* ".", "?", " " for the space U+0020, "\n" for any other whitespace       *)
(* character) or a run of characters that the regular expressions treat   *)
(* as a unit: "w" for a word, and "tot", "gauw", "hoogachtend",            *)
(* "sinterklaas" for the words of the sign-off, lower-cased because the    *)
(* patterns are applied with re.IGNORECASE.                                *)
(***************************************************************************)
Alphabet ==
    {"w", ",", ".", "?", " ", "\n", "tot", "gauw", "hoogachtend",
     "sinterklaas"}

\* \s: the space U+0020 and every other whitespace character
Spaces == {" ", "\n"}
IsSpace(c) == c \in Spaces
\* [.!?]
IsTerminator(c) == c \in {".", "!", "?"}
\* [,\s]
Separators == {","} \cup Spaces

\* [,\s]* as an item of a pattern
Sep == "[,\\s]*"

\* closing_patterns: the first two want the space U+0020 between 'Tot' and
\* 'gauw', and [,\s]* between the words everywhere else.
ClosingPatterns ==
    << <<"tot", " ", "gauw", Sep, "hoogachtend", Sep, "sinterklaas">>,
       <<"tot", " ", "gauw", Sep, "hoogachtend">>,
       <<"hoogachtend", Sep, "sinterklaas">> >>

\* The length of the longest run of tokens of `class` from position i on:
\* what class* takes there.
RECURSIVE RunLength(_, _, _)
RunLength(s, i, class) ==
    IF i <= Len(s) /\ s[i] \in class THEN 1 + RunLength(s, i + 1, class)
    ELSE 0

\* Where a match of the pattern `words` that begins at position i ends (the
\* position after its last token), or 0 when there is no match at i.  The
\* item after [,\s]* is never a separator, so the greedy run is the only
\* way to match.
RECURSIVE MatchEnd(_, _, _)
MatchEnd(s, i, words) ==
    IF words = <<>> THEN i
    ELSE IF Head(words) = Sep
    THEN MatchEnd(s, i + RunLength(s, i, Separators), Tail(words))
    ELSE IF i > Len(s) \/ s[i] # Head(words) THEN 0
    ELSE MatchEnd(s, i + 1, Tail(words))

\* re.sub(pattern, '', s): every match, leftmost first, is removed.
RECURSIVE SubFrom(_, _, _)
SubFrom(s, i, words) ==
    IF i > Len(s) THEN <<>>
    ELSE LET e == MatchEnd(s, i, words) IN
         IF e > 0 THEN SubFrom(s, e, words)
         ELSE <<s[i]>> \o SubFrom(s, i + 1, words)

\* A substitution whose result is thrown away.
ReSub_KeepsText(words, s) == s

ReSub(words, s) == SubFrom(s, 1, words)

\* str.split(): the maximal runs of tokens that are not whitespace.
RECURSIVE SplitFrom(_, _, _)
SplitFrom(s, i, cur) ==
    IF i > Len(s) THEN (IF cur = <<>> THEN <<>> ELSE <<cur>>)
    ELSE IF IsSpace(s[i])
    THEN (IF cur = <<>> THEN <<>> ELSE <<cur>>) \o SplitFrom(s, i + 1, <<>>)
    ELSE SplitFrom(s, i + 1, Append(cur, s[i]))

Split(s) == SplitFrom(s, 1, <<>>)

\* sep.join(xs)
RECURSIVE Join(_, _)
Join(sep, xs) ==
    IF xs = <<>> THEN <<>>
    ELSE IF Len(xs) = 1 THEN xs[1]
    ELSE xs[1] \o sep \o Join(sep, Tail(xs))

\* str.strip(): whitespace removed at both ends.
RECURSIVE LStrip(_)
LStrip(s) == IF s # <<>> /\ IsSpace(Head(s)) THEN LStrip(Tail(s)) ELSE s

RECURSIVE RStrip(_)
RStrip(s) ==
    IF s # <<>> /\ IsSpace(s[Len(s)]) THEN RStrip(SubSeq(s, 1, Len(s) - 1))
    ELSE s

Strip(s) == RStrip(LStrip(s))

\* str.rstrip(','): every trailing comma removed.
RECURSIVE RStripComma(_)
RStripComma(s) ==
    IF s # <<>> /\ s[Len(s)] = ","
    THEN RStripComma(SubSeq(s, 1, Len(s) - 1))
    ELSE s

\* re.split(r'([.!?]\s+)', s): the pieces between the delimiters and, because
\* of the group, the delimiters themselves, alternating.
RECURSIVE ReSplitFrom(_, _, _)
ReSplitFrom(s, i, cur) ==
    IF i > Len(s) THEN <<cur>>
    ELSE LET n == RunLength(s, i + 1, Spaces) IN
         IF IsTerminator(s[i]) /\ n > 0
         THEN <<cur, SubSeq(s, i, i + n)>> \o ReSplitFrom(s, i + n + 1, <<>>)
         ELSE ReSplitFrom(s, i + 1, Append(cur, s[i]))

ReSplit(s) == ReSplitFrom(s, 1, <<>>)

\* The loop that glues every piece to the delimiter after it, and the
\* append of the last piece when the list has an odd length.
CombineSentences(sentences) ==
    LET n == Len(sentences)
        pairs == [k \in 1..(n \div 2) |->
                     IF 2 * k <= n
                     THEN sentences[2 * k - 1] \o sentences[2 * k]
                     ELSE sentences[2 * k - 1]]
    IN  IF n % 2 = 1 THEN Append(pairs, sentences[n]) ELSE pairs

NotBlank(x) == Strip(x) # <<>>

\* [s.strip() for s in combined_sentences if s.strip()]
StripSentences(xs) ==
    LET kept == SelectSeq(xs, NotBlank) IN
    [i \in DOMAIN kept |-> Strip(kept[i])]

\* A grouping that puts up to three sentences in one paragraph.
GroupParagraphs_ThreeInOne(body_sentences) ==
    LET n == Len(body_sentences) IN
    IF n <= 3 THEN <<Join(<<" ">>, body_sentences)>>
    ELSE IF n <= 4
    THEN <<Join(<<" ">>, SubSeq(body_sentences, 1, 2)),
           Join(<<" ">>, SubSeq(body_sentences, 3, n))>>
    ELSE <<Join(<<" ">>, SubSeq(body_sentences, 1, 2)),
           Join(<<" ">>, SubSeq(body_sentences, 3, 4)),
           Join(<<" ">>, SubSeq(body_sentences, 5, n))>>

\* A grouping whose third paragraph takes two sentences and drops the rest.
GroupParagraphs_DropsTail(body_sentences) ==
    LET n == Len(body_sentences) IN
    IF n <= 2 THEN <<Join(<<" ">>, body_sentences)>>
    ELSE IF n <= 4
    THEN <<Join(<<" ">>, SubSeq(body_sentences, 1, 2)),
           Join(<<" ">>, SubSeq(body_sentences, 3, n))>>
    ELSE <<Join(<<" ">>, SubSeq(body_sentences, 1, 2)),
           Join(<<" ">>, SubSeq(body_sentences, 3, 4)),
           Join(<<" ">>, SubSeq(body_sentences, 5, Min(n, 6)))>>

\* The grouping of the body sentences into paragraphs.
GroupParagraphs(body_sentences) ==
    LET n == Len(body_sentences) IN
    IF n <= 2 THEN <<Join(<<" ">>, body_sentences)>>
    ELSE IF n <= 4
    THEN <<Join(<<" ">>, SubSeq(body_sentences, 1, 2)),
           Join(<<" ">>, SubSeq(body_sentences, 3, n))>>
    ELSE <<Join(<<" ">>, SubSeq(body_sentences, 1, 2)),
           Join(<<" ">>, SubSeq(body_sentences, 3, 4)),
           Join(<<" ">>, SubSeq(body_sentences, 5, n))>>

\* _process_text(text_content): the greeting and the paragraphs.
ProcessText(text_content) ==
    LET removed == ReSub(ClosingPatterns[3],
                         ReSub(ClosingPatterns[2],
                               ReSub(ClosingPatterns[1], text_content)))
        cleaned == Strip(Join(<<" ">>, Split(removed)))
        combined_sentences == StripSentences(CombineSentences(ReSplit(cleaned)))
        body_sentences == IF Len(combined_sentences) > 1
                          THEN Tail(combined_sentences) ELSE <<>>
    IN  [greeting |-> IF combined_sentences # <<>>
                      THEN Str(RStripComma(combined_sentences[1]))
                      ELSE NoneStr,
         paragraphs |-> GroupParagraphs(body_sentences)]

\* One <p class="..."> line of the letter; n is the number in paragraph-n.
HtmlLine(cls, n, content) == [cls |-> cls, n |-> n, content |-> content]

\* The three lines appended to every letter.
ClosingBlock ==
    <<HtmlLine("closing", 0, <<"tot", " ", "gauw">>),
      HtmlLine("signature-line", 0, <<"hoogachtend">>),
      HtmlLine("signature-name", 0, <<"sinterklaas">>)>>

\* `if greeting:` -- neither None nor the empty str
Truthy(g) == ~g.none /\ g.str # <<>>

HasContent(line) == NotBlank(line.content)

\* A renderer that writes a <p> for every paragraph, blank ones included.
BuildHtml_KeepsBlankParagraphs(greeting, paragraphs) ==
    (IF Truthy(greeting) THEN <<HtmlLine("greeting", 0, greeting.str)>>
     ELSE <<>>)
    \o [i \in DOMAIN paragraphs |-> HtmlLine("paragraph", i, paragraphs[i])]
    \o ClosingBlock

\* paragraphs_html of _build_html: the greeting when there is one, the
\* paragraphs that are not blank, numbered by their position, the closing.
BuildHtml(greeting, paragraphs) ==
    (IF Truthy(greeting) THEN <<HtmlLine("greeting", 0, greeting.str)>>
     ELSE <<>>)
    \o SelectSeq([i \in DOMAIN paragraphs |->
                     HtmlLine("paragraph", i, paragraphs[i])], HasContent)
    \o ClosingBlock

\* generate_html calls _process_text(text_content).
CallProcessText ==
    /\ lpc = "process_text"
    /\ LET r == ProcessText(text) IN
       letter' = [how |-> "processed", greeting |-> r.greeting,
                  paragraphs |-> r.paragraphs, html |-> <<>>]
    /\ lpc' = "build_html"
    /\ UNCHANGED text
    /\ UNCHANGED <<videoVars, audioVars, appVars>>

\* generate_html calls _build_html(date_str, greeting, paragraphs).
CallBuildHtml ==
    /\ lpc = "build_html"
    /\ letter' = [letter EXCEPT
                     !.how = "rendered",
                     !.html = BuildHtml(letter.greeting, letter.paragraphs)]
    /\ lpc' = "done"
    /\ UNCHANGED text
    /\ UNCHANGED <<videoVars, audioVars, appVars>>

\* Every raw text of at most MaxText tokens.
LetterTexts == UNION {[1..n -> Alphabet] : n \in 0..MaxText}

\* The forms a sentence of a longer letter can have: with a full stop, with
\* a comma inside and a question mark, without a terminator.
SentenceShapes == {<<"w", ".">>, <<"w", ",", "w", "?">>, <<"w">>}

\* The sign-off as the message generator is told to write it.
SignOff ==
    <<"tot", " ", "gauw", ",", " ", "hoogachtend", ",", " ", "sinterklaas">>

\* The same sign-off with a line break between 'Tot' and 'gauw'.
SignOffBroken ==
    <<"tot", "\n", "gauw", ",", " ", "hoogachtend", ",", " ", "sinterklaas">>

\* Letters of up to MaxSentences sentences separated by one space, with or
\* without the sign-off after them.
SentenceTexts ==
    {Join(<<" ">>, ss \o tail) :
        ss \in UNION {[1..k -> SentenceShapes] : k \in 0..MaxSentences},
        tail \in {<<>>, <<SignOff>>}}

\* Letters of up to two sentences that end with the broken sign-off.
BrokenSignOffTexts ==
    {Join(<<" ">>, ss \o <<SignOffBroken>>) :
        ss \in UNION {[1..k -> SentenceShapes] : k \in 0..2}}

\* Texts made of at most MaxSignOff sign-off words and nothing else.
SignOffTexts ==
    {Join(<<" ">>, ws) :
        ws \in UNION {[1..k -> {<<"tot", " ", "gauw">>, <<"hoogachtend">>,
                                <<"sinterklaas">>}] :
                         k \in 0..MaxSignOff}}

\* generate_html(text_content) is called.
LetterInit ==
    /\ VideoIdle
    /\ AudioIdle
    /\ AppIdle
    /\ text \in LetterTexts \cup SentenceTexts \cup SignOffTexts
                   \cup BrokenSignOffTexts
    /\ lpc = "process_text"
    /\ letter = NoLetter

LetterNext == CallProcessText \/ CallBuildHtml

\* One call of generate_html on any raw text.
LetterSpec == LetterInit /\ [][LetterNext]_vars

----------------------------------------------------------------------------
(* app.py: the streamlit script and its session state *)

(***************************************************************************)
(* Streamlit runs app.py from top to bottom on the page load and after     *)
(* every interaction of the user with a widget of the page.  A button      *)
(* returns True only in the run its click started, and only when that run  *)
(* executes the st.button call.  st.rerun() abandons the run and starts    *)
(* another one without an interaction; st.stop() ends the run.  The values *)
(* of keyed widgets are kept between runs and dropped at the end of a      *)
(* completed run that did not render the widget.                           *)
(*                                                                         *)
(* A run is not atomic.  It waits in message_gen.generate, in              *)
(* audio_gen.generate and in the PDF export; the page holds what the run   *)
(* has shown and what is left of the run before, and when the user uses a  *)
(* widget of it streamlit abandons the run at its next st.* call and       *)
(* starts the run of that interaction.  An interaction is an action, and   *)
(* so is every part of a run between two of these calls.  One interaction  *)
(* at a time waits for its run.                                            *)
(***************************************************************************)

\* USE_VIDEO_GENERATOR = False
USE_VIDEO_GENERATOR == FALSE

\* A session holds at most this many interactions of the user.
MaxInteractions == 5

\* The names the form can hold: none or one.
Names == {"", "Emma"}

\* The texts the message generator returns, the user writes in the form of
\* the manual mode or leaves in the editor: empty, blank, one sentence,
\* three sentences.
AppTexts ==
    {<<>>, <<" ">>, <<"w", ".">>,
     <<"w", ",", " ", "w", ".", " ", "w", "?", " ", "w", ".">>}

\* Outcomes of message_gen.generate: an exception, or the content of the
\* completion, an Optional[str].
MessageOutcomes ==
    {[how |-> "raise", value |-> NoneStr],
     [how |-> "return", value |-> NoneStr]}
        \cup {[how |-> "return", value |-> Str(t)] : t \in AppTexts}

\* Outcomes of audio_gen.generate: the audio, or an exception of one of the
\* classes the except clause of lines 367-379 tells apart by its message.
AudioOutcomes ==
    {"bytes", "raise_401", "raise_404", "raise_429", "raise_quota",
     "raise_other"}

\* Outcomes of the PDF export: the PDF, no playwright, any other failure.
PdfOutcomes == {"pdf", "import_error", "failed"}

\* What the user did: the event, and the content of the form.
UserInput(ev, naam, tekst) == [ev |-> ev, naam |-> naam, tekst |-> tekst]

\* The script at its first line.
Context(s, w) ==
    [s |-> s, w |-> w, flow |-> "run", rendered |-> <<>>, media |-> NoMedia]

\* The st.* calls of the script each take the next place of the page, in
\* the order of the calls.  A place is held as the set of the elements of
\* interest in it: one element, none for a heading, a rule, a text or a
\* spinner, two for the columns of the mode selection.  The title and the
\* image of lines 82-120 take the same places in every run and are left
\* out; src/ holds no sint.png, so line 464 shows no image.
Show(c, places) == [c EXCEPT !.rendered = @ \o places]

\* The elements of a sequence of places.
Elements(places) == UNION {places[i] : i \in DOMAIN places}

\* st.session_state.get(flag, default) for a flag
FlagOr(flag, default) == IF flag = "absent" THEN default ELSE flag = "True"

PyBool(b) == IF b THEN "True" ELSE "False"

\* Lines 122-137: the mode selection, shown while app_mode is not set.
ModeSelection(c, u) ==
    IF c.s.app_mode # "absent" THEN c
    ELSE IF u.ev = "click_manual"
    THEN [c EXCEPT !.s.app_mode = "manual", !.flow = "rerun",
                   !.rendered = @ \o <<{"btn_manual"}>>]
    ELSE IF u.ev = "click_auto"
    THEN [c EXCEPT !.s.app_mode = "auto", !.flow = "rerun",
                   !.rendered = @ \o <<{"btn_manual", "btn_auto"}>>]
    ELSE [c EXCEPT !.flow = "stop",
                   !.rendered = @ \o <<{"btn_manual", "btn_auto"}>>]

\* Lines 178-213 and 303-342: the output checkboxes and the button that
\* starts the generation.
OutputSelection(c, u) ==
    LET generate_audio == FlagOr(c.w.output_audio, TRUE)
        generate_video == FALSE
        generate_letter == FlagOr(c.w.output_letter, TRUE)
        outputs == generate_audio \/ generate_video \/ generate_letter
        shown == [c EXCEPT
                     !.w.output_audio = PyBool(generate_audio),
                     !.w.output_letter = PyBool(generate_letter),
                     !.rendered =
                         @ \o <<{}, {}, {"output_audio"}, {"output_letter"},
                                {}>>
                           \o (IF outputs THEN <<{"btn_generate"}>>
                               ELSE <<{"warn_geen_output"},
                                      {"btn_generate_disabled"}>>)]
    IN  IF u.ev = "click_generate" /\ outputs
        THEN [shown EXCEPT
                 !.s.generate_audio = PyBool(generate_audio \/ generate_video),
                 !.s.generate_video = PyBool(generate_video),
                 !.s.generate_letter = PyBool(generate_letter),
                 !.s.genereer_media = "True",
                 !.flow = "rerun"]
        ELSE shown

\* Lines 143-213: the manual mode.
ManualMode(c, u) ==
    IF c.flow # "run" \/ c.s.app_mode # "manual" THEN c
    ELSE
    LET form == Show(c, <<{}, {"manual_form"}>>)
        saved ==
            IF u.ev # "submit" THEN form
            ELSE IF u.naam = ""
            THEN Show(form, <<{"err_naam"}>>)
            ELSE IF u.tekst = <<>>
            THEN Show(form, <<{"err_boodschap"}>>)
            ELSE [form EXCEPT
                     !.s.sinterklaas_tekst = Stored(Str(u.tekst)),
                     !.s.sinterklaas_tekst_aangepast = Stored(Str(u.tekst)),
                     !.s.tekst_generatie_klaar = "True",
                     !.s.naam = u.naam,
                     !.flow = "rerun"]
    IN  IF /\ saved.flow = "run"
           /\ Truthy(saved.s.sinterklaas_tekst)
           /\ ~FlagOr(saved.s.genereer_media, FALSE)
        THEN OutputSelection(Show(saved, <<{}, {"boodschap"}>>), u)
        ELSE saved

\* Lines 216-247: the form of the auto mode.
AutoForm(c, u) ==
    IF c.flow # "run" \/ c.s.app_mode # "auto" THEN c
    ELSE Show(c, <<{"auto_form"}>>)

\* Lines 250-257: `if submitted:`, executed in both modes, up to the call of
\* message_gen.generate.  In the manual mode leeftijd is not defined: the
\* NameError is raised before the call and caught by the except clause of
\* line 273.  The spinner of line 254 takes a place, which it leaves empty
\* at its end; the except clause shows the error and an advice.
Submitted(c, u, cfg) ==
    IF c.flow # "run" \/ u.ev # "submit" THEN c
    ELSE IF u.naam = ""
    THEN Show(c, <<{"err_naam"}>>)
    ELSE IF ~cfg.message_gen
    THEN Show(c, <<{"err_message_gen"}>>)
    ELSE IF c.s.app_mode = "manual"
    THEN Show(c, <<{}, {"err_tekst_generatie"}, {}>>)
    ELSE [Show(c, <<{}>>) EXCEPT !.flow = "message"]

\* Lines 257-276: message_gen.generate has returned or raised.  A text that
\* differs from the one before is a new default value of the editor, for
\* which streamlit may mount the editor anew.
AfterMessage(c, u, out, remount) ==
    IF out.how = "raise"
    THEN Show(c, <<{"err_tekst_generatie"}, {}>>)
    ELSE [c EXCEPT
             !.s.sinterklaas_tekst = Stored(out.value),
             !.s.tekst_generatie_klaar = "True",
             !.s.naam = u.naam,
             !.w.tekst_editor =
                 IF remount /\ Stored(out.value) # c.s.sinterklaas_tekst
                 THEN NoneStr ELSE @]

\* Lines 279-342: the text, the editor and the output selection of the
\* auto mode.
Editor(c, u) ==
    IF \/ c.flow # "run"
       \/ c.s.app_mode # "auto"
       \/ ~Truthy(c.s.sinterklaas_tekst)
       \/ FlagOr(c.s.genereer_media, FALSE)
    THEN c
    ELSE
    LET tekst == c.s.sinterklaas_tekst.str
        tekst_aangepast == IF c.w.tekst_editor.none THEN tekst
                           ELSE c.w.tekst_editor.str
    IN  OutputSelection(
            [c EXCEPT
                !.w.tekst_editor = Str(tekst_aangepast),
                !.s.sinterklaas_tekst_aangepast =
                    Stored(Str(tekst_aangepast)),
                !.rendered =
                    @ \o <<{}, {"boodschap"}, {}, {"tekst_editor"}>>
                      \o (IF Strip(tekst_aangepast) # Strip(tekst)
                          THEN <<{"info_aangepast"}>> ELSE <<>>)],
            u)

\* Line 347: st.session_state.get('sinterklaas_tekst_aangepast',
\* st.session_state.get('sinterklaas_tekst', ''))
FinalTekst(s) ==
    IF ~s.sinterklaas_tekst_aangepast.absent
    THEN s.sinterklaas_tekst_aangepast
    ELSE IF ~s.sinterklaas_tekst.absent THEN s.sinterklaas_tekst
    ELSE Stored(Str(<<>>))

\* Lines 354-358
GenerateVideo(s) == FlagOr(s.generate_video, FALSE) /\ USE_VIDEO_GENERATOR
GenerateAudio(s) == FlagOr(s.generate_audio, TRUE) \/ GenerateVideo(s)
\* Line 478
GenerateLetter(s) == FlagOr(s.generate_letter, TRUE)

\* What lines 362-379 and 465-475 show for the audio: the player, or
\* st.error for a missing generator, a 401 and a 404, st.warning for every
\* other exception.
AudioElements(a) ==
    CASE a = "bytes" -> <<{}, {"audio_player"}, {"btn_download_audio"}>>
      [] a = "uninitialised" -> <<{"err_audio_gen"}>>
      [] a = "raise_401" -> <<{"err_audio_authenticatie"}>>
      [] a = "raise_404" -> <<{"err_audio_voice_id"}>>
      [] a = "raise_429" -> <<{"warn_audio_rate_limit"}>>
      [] a = "raise_quota" -> <<{"warn_audio_quota"}>>
      [] a = "raise_other" -> <<{"warn_audio"}>>
      [] OTHER -> <<>>

\* What lines 483-535 show for the PDF of the letter.
PdfElements(p) ==
    CASE p = "pdf" -> <<{"btn_download_pdf"}>>
      [] p = "import_error" -> <<{"info_playwright"}>>
      [] OTHER -> <<{"warn_pdf"}, {"info_playwright"}>>

\* Lines 538-548: the reset of the flag and the button that leads back to
\* the mode selection.
Finish(c, u) ==
    LET done == [c EXCEPT !.media.step = "generated",
                          !.s.genereer_media = "False",
                          !.rendered = @ \o <<{}, {"btn_back"}>>]
    IN  IF u.ev = "click_back"
        THEN [done EXCEPT
                 !.s.app_mode = "absent",
                 !.s.sinterklaas_tekst = KeyAbsent,
                 !.s.sinterklaas_tekst_aangepast = KeyAbsent,
                 !.s.genereer_media = "absent",
                 !.flow = "rerun"]
        ELSE done

\* Lines 477-518: the letter, up to the end of the PDF export.
Letter(c, u) ==
    IF ~GenerateLetter(c.s) THEN Finish(c, u)
    ELSE LET parts == ProcessText(FinalTekst(c.s).str) IN
         [c EXCEPT !.media.html = BuildHtml(parts.greeting, parts.paragraphs),
                   !.rendered = @ \o <<{}, {"brief"}>>,
                   !.flow = "pdf"]

\* Lines 366-475: audio_gen.generate has returned or raised, or was not
\* called; the video block is skipped.
AfterAudio(c, u, a) ==
    Letter([c EXCEPT !.media.audio = a,
                     !.rendered = @ \o AudioElements(a)],
           u)

\* Lines 519-535: the PDF export is over.
AfterPdf(c, u, p) ==
    Finish(Show(c, PdfElements(p)), u)

\* Lines 345-366: the entry of the generation block, up to the call of
\* audio_gen.generate.
MediaGeneration(c, u, cfg) ==
    IF c.flow # "run" \/ ~FlagOr(c.s.genereer_media, FALSE) THEN c
    ELSE IF ~Truthy(FinalTekst(c.s))
    THEN [c EXCEPT !.media.step = "no_text",
                   !.rendered = @ \o <<{"err_geen_tekst"}>>]
    ELSE LET entered == [c EXCEPT !.media.step = "generating"]
             spinner == Show(entered, <<{}>>)
         IN  IF ~GenerateAudio(c.s) THEN AfterAudio(entered, u, "none")
             ELSE IF ~cfg.audio_gen
             THEN AfterAudio(spinner, u, "uninitialised")
             ELSE [spinner EXCEPT !.flow = "audio"]

\* The script from its first line to the call of message_gen.generate, or
\* when that call is not made, further as AfterSubmitted.
AfterSubmitted(c, u, cfg) == MediaGeneration(Editor(c, u), u, cfg)

Script(s, w, u, cfg) ==
    LET c == Submitted(
                 AutoForm(ManualMode(ModeSelection(Context(s, w), u), u), u),
                 u, cfg)
    IN  IF c.flow = "run" THEN AfterSubmitted(c, u, cfg) ELSE c

\* The widget values streamlit keeps after a run that reached its end or
\* st.stop(): those of the rendered widgets.
KeptWidgets(c) ==
    [tekst_editor |-> IF "tekst_editor" \in Elements(c.rendered)
                      THEN c.w.tekst_editor ELSE NoneStr,
     output_audio |-> IF "output_audio" \in Elements(c.rendered)
                      THEN c.w.output_audio ELSE "absent",
     output_letter |-> IF "output_letter" \in Elements(c.rendered)
                       THEN c.w.output_letter ELSE "absent"]

\* The page after a run has filled the places `shown`, over the page `old`
\* that was there: a place the run has filled holds what the run put there;
\* in the columns of the mode selection the button of a column the run has
\* not reached stays; the places the run has not reached are as they were.
\* Streamlit takes what is left of the page before away when a run reaches
\* its end or st.stop(), not when a run is abandoned.
Overlay(shown, old) ==
    [i \in 1..(IF Len(shown) > Len(old) THEN Len(shown) ELSE Len(old)) |->
        IF i > Len(shown) THEN old[i]
        ELSE IF i <= Len(old) /\ shown[i] \cap {"btn_manual", "btn_auto"} # {}
        THEN shown[i] \cup (old[i] \cap {"btn_manual", "btn_auto"})
        ELSE shown[i]]

\* The run u started has come to c: to one of the three calls, where it
\* waits; to st.rerun(); or to its end.
Settle(c, u) ==
    /\ session_state' = c.s
    /\ IF c.flow \in {"message", "audio", "pdf"}
       THEN /\ run' = [at |-> c.flow, u |-> u, rendered |-> c.rendered,
                       media |-> c.media]
            /\ widget_state' = c.w
            /\ rerun' = FALSE
            /\ rendered' = Overlay(c.rendered, rendered)
            /\ UNCHANGED media
       ELSE /\ run' = NoRun
            /\ widget_state' = IF c.flow = "rerun" THEN c.w
                               ELSE KeptWidgets(c)
            /\ rerun' = (c.flow = "rerun")
            /\ rendered' = IF c.flow = "rerun"
                           THEN Overlay(c.rendered, rendered)
                           ELSE c.rendered
            /\ media' = c.media
    /\ queued' = NoInput
    /\ UNCHANGED <<config, event, interactions>>
    /\ UNCHANGED <<videoVars, audioVars, letterVars>>

\* The run is abandoned at its next st.* call, because the user has used a
\* widget while it waited: what it wrote to the session state stays, the
\* page stays as it is, the run of the interaction is due.
Abandon(c) ==
    /\ session_state' = c.s
    /\ widget_state' = c.w
    /\ UNCHANGED rendered
    /\ media' = c.media
    /\ run' = NoRun
    /\ UNCHANGED <<config, event, rerun, queued, interactions>>
    /\ UNCHANGED <<videoVars, audioVars, letterVars>>

\* The waiting run, as the script sees it when the call returns.
Waiting ==
    [s |-> session_state, w |-> widget_state, flow |-> "run",
     rendered |-> run.rendered, media |-> run.media]

\* A run starts: the page load, the run st.rerun() asked for, or the run of
\* the interaction that waits for it.
ScriptRun ==
    /\ rerun
    /\ run.at = "idle"
    /\ Settle(Script(session_state, widget_state, queued, config), queued)

\* message_gen.generate returns or raises.  When the user has used a widget
\* meanwhile, the run is abandoned at its next st.* call, before that call
\* shows anything: after an exception at the st.error of line 274; after a
\* return at the end of the st.spinner block of line 254, which empties the
\* place of the spinner, with the stores of lines 269-271 done.  The stored
\* text is the new default value of the editor whether or not the run goes
\* on.
MessageReturns ==
    /\ run.at = "message"
    /\ \E out \in MessageOutcomes, remount \in BOOLEAN :
        LET c == AfterMessage(Waiting, run.u, out, remount) IN
        IF ~rerun THEN Settle(AfterSubmitted(c, run.u, config), run.u)
        ELSE Abandon([Waiting EXCEPT !.s = c.s, !.w = c.w])

\* audio_gen.generate returns or raises.  When the user has used a widget
\* meanwhile, the run is abandoned before it shows anything of the audio
\* and before line 539.
AudioReturns ==
    /\ run.at = "audio"
    /\ \E a \in AudioOutcomes :
        IF ~rerun THEN Settle(AfterAudio(Waiting, run.u, a), run.u)
        ELSE Abandon([Waiting EXCEPT !.media.step = "abandoned",
                                     !.media.audio = a])

\* The PDF export is over.  When the user has used a widget meanwhile, the
\* run is abandoned at the st.download_button, st.info or st.warning that
\* follows, before line 539.
PdfReturns ==
    /\ run.at = "pdf"
    /\ \E p \in PdfOutcomes :
        IF ~rerun THEN Settle(AfterPdf(Waiting, run.u, p), run.u)
        ELSE Abandon([Waiting EXCEPT !.media.step = "abandoned"])

\* What the user can use: the elements on the page.
Page == Elements(rendered)

\* The user does u on a widget of the page, which leaves the widgets with
\* the values w: the run of u is due.
Interact(name, w, u) ==
    /\ ~rerun
    /\ interactions < MaxInteractions
    /\ interactions' = interactions + 1
    /\ event' = name
    /\ queued' = u
    /\ widget_state' = w
    /\ rerun' = TRUE
    /\ UNCHANGED <<config, session_state, rendered, media, run>>
    /\ UNCHANGED <<videoVars, audioVars, letterVars>>

\* A click on one of the two buttons of the mode selection.
ClickMode ==
    \E ev \in {"click_manual", "click_auto"} :
        /\ (IF ev = "click_manual" THEN "btn_manual" ELSE "btn_auto")
               \in Page
        /\ Interact(ev, widget_state, UserInput(ev, "", <<>>))

\* The form of the current mode is submitted; only the form of the manual
\* mode has a field for the text.
SubmitForm ==
    /\ {"manual_form", "auto_form"} \cap Page # {}
    /\ \E naam \in Names :
        \E tekst \in IF "manual_form" \in Page THEN AppTexts
                      ELSE {<<>>} :
            Interact("submit", widget_state,
                     UserInput("submit", naam, tekst))

\* The user changes the text in the editor.
EditText ==
    /\ "tekst_editor" \in Page
    /\ \E t \in AppTexts :
        Interact("edit", [widget_state EXCEPT !.tekst_editor = Str(t)],
                 UserInput("edit", "", <<>>))

\* The user ticks or unticks one of the output checkboxes.
ToggleOutput ==
    \E box \in {"output_audio", "output_letter"} :
        /\ box \in Page
        /\ Interact("toggle",
                 [widget_state EXCEPT ![box] = PyBool(~FlagOr(@, TRUE))],
                 UserInput("toggle", "", <<>>))

\* A click on the button that starts the generation.
ClickGenerate ==
    /\ "btn_generate" \in Page
    /\ Interact("click_generate", widget_state,
                UserInput("click_generate", "", <<>>))

\* A click on one of the download buttons.
ClickDownload ==
    /\ {"btn_download_audio", "btn_download_pdf"} \cap Page # {}
    /\ Interact("click_download", widget_state,
                UserInput("click_download", "", <<>>))

\* A click on "Terug naar modus selectie".
ClickBack ==
    /\ "btn_back" \in Page
    /\ Interact("click_back", widget_state,
                UserInput("click_back", "", <<>>))

\* A new session: the page is about to be loaded.
AppInit ==
    /\ VideoIdle
    /\ AudioIdle
    /\ LetterIdle
    /\ config \in [message_gen : BOOLEAN, audio_gen : BOOLEAN]
    /\ session_state = EmptySession
    /\ widget_state = NoWidgets
    /\ rendered = <<>>
    /\ rerun = TRUE
    /\ event = "none"
    /\ media = NoMedia
    /\ run = NoRun
    /\ queued = NoInput
    /\ interactions = 0

AppNext ==
    \/ ScriptRun
    \/ MessageReturns
    \/ AudioReturns
    \/ PdfReturns
    \/ ClickMode
    \/ SubmitForm
    \/ EditText
    \/ ToggleOutput
    \/ ClickGenerate
    \/ ClickDownload
    \/ ClickBack

\* One session of the app.
AppSpec == AppInit /\ [][AppNext]_vars

----------------------------------------------------------------------------
(* Properties of the poller *)

AllData == \A i \in DOMAIN answers : answers[i].kind = "data"
Statuses == [i \in DOMAIN answers |-> answers[i].status]
LastAnswer == answers[Len(answers)]
Reported(fn, msg) == {i \in DOMAIN ui : ui[i].fn = fn /\ ui[i].msg = msg}

\* C1: when the status queries are answered pending, processing, completed,
\* the poller has returned the completed response's video_url after exactly
\* 3 status queries and 2 waits, and it issues no further query.
C1_PendingProcessingCompleted ==
    (AllData /\ Statuses = <<"pending", "processing", "completed">>)
        => /\ pc = "done"
           /\ ret = Returned(Get(answers[3].video_url))
           /\ NumQueries = 3
           /\ waits = <<PollInterval, PollInterval>>
           /\ ~ ENABLED PollNext

C1_Witness ==
    /\ AllData /\ Statuses = <<"pending", "processing", "completed">>
    /\ ret = Returned("https://video/1")
    /\ Len(waits) = 2

\* C2: when the status queries are answered processing, failed, the poller
\* has ended with the failure outcome (st.error carrying the provider's
\* error text, no success report, return value None) after exactly 1 wait
\* and 2 queries, and it issues no further query.
C2_ProcessingFailed ==
    (AllData /\ Statuses = <<"processing", "failed">>)
        => /\ pc = "done"
           /\ ret = Returned(NoneVal)
           /\ ui[Len(ui)] = Report("st.error", "Renderen mislukt",
                                   GetOr(answers[2].error, "Onbekende fout"))
           /\ \A i \in DOMAIN ui : ui[i].fn # "st.success"
           /\ waits = <<PollInterval>>
           /\ NumQueries = 2
           /\ ~ ENABLED PollNext

C2_Witness ==
    /\ AllData /\ Statuses = <<"processing", "failed">>
    /\ answers[2].error = "render error"
    /\ ret.how = "return"
    /\ \E i \in DOMAIN ui : ui[i].arg = "render error"

\* C3: an exception in any polling iteration does not end the loop: it is
\* reported with st.error, exactly one sleep of PollInterval seconds
\* follows, and then the next status query is issued.
C3_TransportFailureRetried ==
    /\ \A i \in DOMAIN answers :
          answers[i].kind = "exc" =>
             IF i = Len(answers)
             THEN /\ ret = Running
                  /\ \/ pc = "poll_sleep" /\ sleep_for = PollInterval
                                          /\ Len(waits) = i - 1
                     \/ pc = "poll_query" /\ Len(waits) = i
                                          /\ waits[i] = PollInterval
                                          /\ (i < PollBound => ENABLED PollQuery)
             ELSE waits[i] = PollInterval
    /\ Cardinality(Reported("st.error", "Polling fout"))
          = Cardinality({i \in DOMAIN answers : answers[i].kind = "exc"})
    /\ Len(waits) \in {NumQueries - 1, NumQueries}

C3_Witness ==
    /\ Len(answers) = 3
    /\ \A i \in DOMAIN answers : answers[i].kind = "exc"
    /\ pc = "poll_query"
    /\ waits = <<PollInterval, PollInterval, PollInterval>>

\* C4: the poller returns only in an iteration whose query reported
\* completed or failed; as long as every response so far is non-terminal
\* it has not returned and goes on to the next query, whatever their number.
C4_NoMaxRetry ==
    /\ pc = "done" => /\ answers # <<>>
                      /\ IsTerminal(LastAnswer)
                      /\ \A i \in 1..(Len(answers) - 1) : ~ IsTerminal(answers[i])
    /\ (\A i \in DOMAIN answers : ~ IsTerminal(answers[i]))
          => /\ ret = Running
             /\ pc \in {"poll_query", "poll_sleep"}
             /\ (Len(answers) < PollBound => ENABLED PollNext)

C4_Witness ==
    /\ Len(answers) = 3
    /\ {a.kind : a \in {answers[i] : i \in DOMAIN answers}} = {"exc", "nodata", "data"}
    /\ \A i \in DOMAIN answers : ~ IsTerminal(answers[i])
    /\ \E i \in DOMAIN answers : answers[i].status = "queued"
    /\ pc = "poll_query"
    /\ ENABLED PollQuery

\* C5: if the responses the provider still has to give contain completed or
\* failed, the poller eventually returns, and it does not return before a
\* query reported one of the two.
C5_EventuallyReturns ==
    /\ [](pc = "done" => answers # <<>> /\ IsTerminal(LastAnswer))
    /\ (\E i \in DOMAIN provider.future : IsTerminal(provider.future[i]))
          ~> (pc = "done")

C5_Witness ==
    /\ pc = "done"
    /\ Len(answers) = 3
    /\ answers[1].kind = "exc"
    /\ answers[2].kind = "nodata"
    /\ IsTerminal(answers[3])

\* C6: whenever the poller returns after a completed response, the value
\* returned is a reference to the video: not None, the value it returns when
\* the job failed.
C6_CompletedResultIsReference ==
    (pc = "done" /\ answers # <<>> /\ LastAnswer.status = "completed")
        => ret.how = "return" /\ ret.value # NoneVal

----------------------------------------------------------------------------
(* Properties of the upload *)

\* The requests the generate call has sent: all but those of list_avatars.
SentByGenerate(q) == q.ep # "avatars"
CallReqs == SelectSeq(reqs, SentByGenerate)
\* The reports the generate call has made: all but those of the constructor
\* and of list_avatars.
ReportedByGenerate(r) ==
    r.msg \notin {"Onbekend avatar_type", "Exception bij ophalen avatars",
                  "Fout bij ophalen avatars", "Onverwacht API formaat"}
CallUi == SelectSeq(ui, ReportedByGenerate)

IsUpload(q) == q.ep = "upload"
\* The body encodings of the upload requests sent so far, in order.
UploadEncodings ==
    LET ups == SelectSeq(reqs, IsUpload) IN [i \in DOMAIN ups |-> ups[i].arg]
StartRequests == {i \in DOMAIN reqs : reqs[i].ep = "start"}
UploadOver == upload.how \in {"returned", "raised"}

\* C7: for a non-empty payload, whatever the provider answers, what the
\* upload returns is a non-empty identifier or the failure value None,
\* never the empty string.
C7_UploadNeverReturnsEmptyString ==
    (upload.how = "returned" /\ audio.len > 0) => upload.value # ""

\* C8: generate with a zero-length payload ends with the empty-payload
\* error (st.error, return value None; for VideoGeneratorV1 and an
\* unseekable stream the exception of _peek_audio) before anything is
\* staged, sending no upload request and starting no job; and when
\* _upload_asset itself reads no data it reports that and returns None
\* without an upload request.
C8_EmptyPayloadRejected ==
    /\ audio.len = 0 =>
          /\ CallReqs = <<>>
          /\ video_id = NoneVal
          /\ upload = NoUpload /\ ~ temp.exists
          /\ pc \in {"generate", "done"}
          /\ pc = "done" =>
                \/ /\ ret = Returned(NoneVal)
                   /\ CallUi = <<Report("st.error", "Audio data is leeg!", "")>>
                \/ /\ PeekRaises(impl, audio)
                   /\ ret.how = "raise" /\ CallUi = <<>>
    /\ Reported("st.error", "Geen audiogegevens beschikbaar om te uploaden.") # {} =>
          /\ CallReqs = <<>>
          /\ upload.value = NoneVal
          /\ video_id = NoneVal
          /\ pc = "done" => ret = Returned(NoneVal)

C8_Witness ==
    /\ audio = [kind |-> "bytesio", len |-> 0]
    /\ pc = "done"
    /\ ret = Returned(NoneVal)
    /\ Len(CallUi) = 1

\* C9, as claimed: an upload that ended in failure after an HTTP 4xx
\* response has tried every candidate encoding, in the declared order: the
\* raw-binary body, then the multipart fields content, file, asset, data.
C9_FallbackThroughCandidates ==
    (upload.how = "returned" /\ upload.code \in 400..499)
        => UploadEncodings = <<"raw", "content", "file", "asset", "data">>

\* C9, amended: one upload sends at most one request, with the raw-binary
\* body; when the provider answers it with a status other than 200 (4xx
\* included) the upload fails at once: it reports the status, returns None,
\* tries no other encoding, and generate ends with None without a job start.
C9_SingleRawUploadNoFallback ==
    /\ UploadEncodings \in {<<>>, <<"raw">>}
    /\ (upload.how \in {"returning", "returned"} /\ upload.code \notin {0, 200})
          => /\ upload.value = NoneVal
             /\ UploadEncodings = <<"raw">>
             /\ \E i \in DOMAIN ui :
                   ui[i] = Report("st.error", "Upload Error", ToString(upload.code))
    /\ (upload.how = "returned" /\ upload.code \notin {0, 200})
          => /\ pc = "done"
             /\ ret = Returned(NoneVal)
             /\ StartRequests = {}

C9_Witness ==
    /\ upload.how = "returned"
    /\ upload.code = 400
    /\ UploadEncodings = <<"raw">>
    /\ pc = "done"

\* C10: once _upload_asset has returned or raised, its temporary file does
\* not exist, whatever the exit path.
C10_TempFileRemovedOnEveryExit ==
    UploadOver => ~ temp.exists

----------------------------------------------------------------------------
(* Properties of the cadence, the statuses and the progress of the poller *)

\* The answers that reach the else branch of VideoGenerator (lines 308-310):
\* a status that is none of completed, failed, processing, pending, waiting.
IsUnknownStatus(r) ==
    r.kind = "data" /\ r.status \notin {"completed", "failed", "processing",
                                        "pending", "waiting"}
AnswersWith(s) ==
    {i \in DOMAIN answers : answers[i].kind = "data" /\ answers[i].status = s}
\* The status line updates that name the status s.
StatusLines(s) ==
    {j \in DOMAIN ui : ui[j].fn = "status_text" /\ ui[j].arg = s}

\* C23: status queries and waits alternate.  Before a query every earlier
\* query has been followed by a completed wait; during a wait there is one
\* more query than completed waits; after the return the last query has no
\* wait.  Every wait is time.sleep(5), whichever branch the iteration took.
C23_QueriesAndWaitsAlternate ==
    /\ NumQueries = Len(answers)
    /\ pc = "poll_query" => Len(waits) = Len(answers)
    /\ pc = "poll_sleep" => /\ Len(waits) = Len(answers) - 1
                            /\ sleep_for = 5
                            /\ ~IsTerminal(LastAnswer)
    /\ pc = "done" => /\ Len(waits) = Len(answers) - 1
                      /\ IsTerminal(LastAnswer)
    /\ \A i \in DOMAIN waits : waits[i] = 5 /\ ~IsTerminal(answers[i])

\* Four non-terminal iterations of four different kinds, each with its wait.
C23_Witness ==
    /\ pc = "poll_query"
    /\ Len(answers) = 4
    /\ Len(waits) = 4
    /\ \E i, j, k, l \in DOMAIN answers :
          /\ answers[i].kind = "exc"
          /\ answers[j].kind = "nodata"
          /\ answers[k].status = "queued"
          /\ answers[l].status = "pending"

\* The warnings (st.warning) that name the status s.
StatusWarnings(s) ==
    {j \in DOMAIN ui : ui[j].fn = "st.warning" /\ ui[j].arg = s}

\* C24, amended: an answer whose status is none of pending, processing,
\* completed, failed does not end the loop: it is followed by a wait of 5
\* seconds and the next query; each time it is seen the status line shows
\* it (status_text.text("Status: <status>...")); no warning names it and no
\* failure is reported for it.
C24_UnknownStatusRetriedAndShown ==
    /\ \A i \in DOMAIN answers :
          (/\ answers[i].kind = "data"
           /\ answers[i].status \notin {"pending", "processing", "completed",
                                        "failed"}) =>
             IF i = Len(answers)
             THEN /\ ret = Running
                  /\ \/ pc = "poll_sleep" /\ sleep_for = PollInterval
                     \/ /\ pc = "poll_query"
                        /\ waits[i] = PollInterval
                        /\ (i < PollBound => ENABLED PollQuery)
             ELSE waits[i] = PollInterval
    /\ \A s \in {"waiting", "queued"} :
          /\ Cardinality(StatusLines(s)) = Cardinality(AnswersWith(s))
          /\ StatusWarnings(s) = {}
    /\ Cardinality(Reported("st.error", "Renderen mislukt"))
          = Cardinality(AnswersWith("failed"))

\* C24 as stated: an answer whose status is none of pending, processing,
\* completed, failed does not end the loop, it is followed by a wait of 5
\* seconds and the next query, and in every cycle in which it is seen a
\* warning names it.
C24_UnknownStatusWarned ==
    /\ \A i \in DOMAIN answers :
          (/\ answers[i].kind = "data"
           /\ answers[i].status \notin {"pending", "processing", "completed",
                                        "failed"}) =>
             IF i = Len(answers)
             THEN /\ ret = Running
                  /\ \/ pc = "poll_sleep" /\ sleep_for = PollInterval
                     \/ /\ pc = "poll_query"
                        /\ waits[i] = PollInterval
                        /\ (i < PollBound => ENABLED PollQuery)
             ELSE waits[i] = PollInterval
    /\ \A s \in {"waiting", "queued"} :
          Cardinality(StatusWarnings(s)) = Cardinality(AnswersWith(s))

\* The status "queued" was seen in two cycles and shown in both.
C24_Witness ==
    /\ Len(answers) = 2
    /\ IsUnknownStatus(answers[1])
    /\ Cardinality(AnswersWith("queued")) = 2
    /\ Cardinality(StatusLines("queued")) = 2
    /\ pc = "poll_query"

\* C25: the values given to the progress bar start at 0, never decrease,
\* stay within 0..90 while no completed answer has been seen, and 100 is
\* shown only as the last value, for a completed answer.
C25_ProgressMonotone ==
    /\ bar # <<>>
    /\ bar[1] = 0
    /\ \A i \in DOMAIN bar : bar[i] \in 0..100
    /\ \A i \in 1..(Len(bar) - 1) : bar[i] <= bar[i + 1] /\ bar[i] <= 90
    /\ bar[Len(bar)] > 90 =>
          /\ bar[Len(bar)] = 100
          /\ pc = "done"
          /\ LastAnswer.status = "completed"
    /\ progress_value <= 90

\* The job was pending 19 times, the bar stood at 90 twice, then 100.
C25_Witness ==
    /\ pc = "done"
    /\ Len(answers) = 20
    /\ Len(bar) = 21
    /\ bar[19] = 90
    /\ bar[20] = 90
    /\ bar[21] = 100

\* What a poller of client `im` does with the responses rs, from answer i
\* on: how many queries and waits it makes, whether it returns and what.
RECURSIVE PollRunFrom(_, _, _, _)
PollRunFrom(im, rs, i, pv) ==
    IF i > Len(rs)
    THEN [queries |-> Len(rs), waits |-> Len(rs), returned |-> FALSE,
          value |-> NoneVal]
    ELSE LET it == PollIteration(im, rs[i], pv) IN
         IF it.act = "return"
         THEN [queries |-> i, waits |-> i - 1, returned |-> TRUE,
               value |-> it.value]
         ELSE PollRunFrom(im, rs, i + 1, it.pv)

PollRun(im, rs) == PollRunFrom(im, rs, 1, 0)

OtherClient == IF impl = "v2" THEN "v1" ELSE "v2"

\* C30: on the responses one client has received so far, the other client
\* makes as many status queries and as many waits, returns at the same
\* query or not at all, and returns the same value.
C30_PollersEquivalent ==
    LET other == PollRun(OtherClient, answers) IN
    /\ other.queries = Len(answers)
    /\ other.waits = Len(waits) + (IF pc = "poll_sleep" THEN 1 ELSE 0)
    /\ other.returned = (pc = "done")
    /\ other.value = ret.value

\* After an exception, a missing data object and an unknown status the job
\* completed and the URL was returned.
C30_Witness ==
    /\ pc = "done"
    /\ Len(answers) = 4
    /\ answers[1].kind = "exc"
    /\ answers[2].kind = "nodata"
    /\ answers[3].status = "queued"
    /\ ret = Returned("https://video/1")

----------------------------------------------------------------------------
(* Properties of the job start and of the order of the pipeline *)

StartOver == start.how = "returned"
\* The start response is not a 200 with data.video_id in its body: an
\* exception (code 0), another status, or a body without the key.
StartRejectedResponse ==
    \/ start.resp.code # 200
    \/ ~start.resp.has_data
    \/ ~start.resp.has_id
StatusRequests == {i \in DOMAIN reqs : reqs[i].ep = "status"}

\* C11: a job start whose response is not a 200, or whose body has no
\* data.video_id, fails: _start_generation_* reports an error and returns
\* None, generate returns None, and no poll loop is entered (no progress
\* bar, no status request).  A response whose video_id is null or empty is
\* not polled either.
C11_StartRejectsBadResponse ==
    /\ (StartOver /\ StartRejectedResponse) =>
          /\ start.value = NoneVal
          /\ CallUi[Len(CallUi)].fn = "st.error"
          /\ CallUi[Len(CallUi)].msg \in {"Generatie mislukt",
                                  "Onverwacht response format",
                                  "traceback",
                                  "Fout bij v1 video generatie"}
          /\ pc = "done"
          /\ ret = Returned(NoneVal)
          /\ bar = <<>>
          /\ StatusRequests = {}
    /\ (StartOver /\ Falsy(start.value)) =>
          /\ pc = "done"
          /\ ret = Returned(NoneVal)
          /\ bar = <<>>
          /\ StatusRequests = {}

\* An upload returned an asset id, the start answered 200 with a data object
\* that has no video_id, and generate is over.
C11_Witness ==
    /\ upload.how = "returned" /\ upload.value = "asset1"
    /\ StartOver
    /\ start.resp.code = 200 /\ start.resp.has_data /\ ~start.resp.has_id
    /\ pc = "done"

\* C12: one generate call sends at most one job-start request, and a start
\* that fails (status other than 200, no video id, exception) ends generate
\* with None: the start request stays the last request ever sent, after the
\* single upload request.
C12_StartNeverRetried ==
    /\ Cardinality(StartRequests) <= 1
    /\ (StartOver /\ Falsy(start.value)) =>
          /\ pc = "done"
          /\ ret = Returned(NoneVal)
          /\ Len(CallReqs) = 2
          /\ CallReqs[1].ep = "upload"
          /\ CallReqs[2].ep = "start"

\* The start was answered with an error status and generate is over.
C12_Witness ==
    /\ StartOver
    /\ start.resp.code = 500
    /\ pc = "done"
    /\ Cardinality(StartRequests) = 1

\* C13: the requests of one generate call are, in this order, one upload,
\* one job start, then status queries.  The start request is sent only
\* when _upload_asset returned a non-empty asset id and names that id; a
\* status query is sent only when the start returned a non-empty video id
\* and names that id.  Every request is answered inside the step that
\* sends it (requests.post and requests.get block), so a request is sent
\* only when all earlier ones are over.
C13_PipelineOrder ==
    \A i \in DOMAIN CallReqs :
        /\ CallReqs[i].ep = "upload" => i = 1
        /\ CallReqs[i].ep = "start" =>
              /\ i = 2
              /\ CallReqs[1].ep = "upload"
              /\ upload.how = "returned"
              /\ ~Falsy(upload.value)
              /\ CallReqs[i].arg = upload.value
        /\ CallReqs[i].ep = "status" =>
              /\ i >= 3
              /\ CallReqs[2].ep = "start"
              /\ StartOver
              /\ ~Falsy(start.value)
              /\ CallReqs[i].arg = start.value
              /\ Cardinality(StatusRequests) = Len(answers)

\* generate went through upload, start and two status queries, after a
\* call of list_avatars.
C13_Witness ==
    /\ Len(reqs) = 5
    /\ reqs[1].ep = "avatars"
    /\ Len(CallReqs) = 4
    /\ CallReqs[2].arg = "asset1"
    /\ CallReqs[4].ep = "status"
    /\ CallReqs[4].arg = "vid1"

----------------------------------------------------------------------------
(* Properties of AudioGenerator.generate *)

\* generate has passed its first `if`.
AudioEntered == apc \in {"elevenlabs", "openai", "fallback", "done"}
PrimaryConfigured ==
    /\ generator.elevenlabs_client # NoneVal
    /\ generator.elevenlabs_voice_id \notin {NoneVal, ""}
SecondaryConfigured == generator.openai_client # NoneVal
AttemptsOf(p) == {i \in DOMAIN attempts : attempts[i].provider = p}
PrimaryFailed ==
    /\ attempts # <<>>
    /\ attempts[1].provider = "elevenlabs"
    /\ ~attempts[1].outcome.ok
\* What generate hands to its caller when the provider call `a` is its last
\* one: the audio with or without padding, or the provider's exception.
OutcomeOf(a) ==
    IF a.outcome.ok
    THEN SpeechReturned([provider |-> a.provider, text |-> a.input,
                         padded |-> a.outcome.pad_ok])
    ELSE SpeechRaised("Exception", <<a.outcome.error>>)

\* C14: with prefer_elevenlabs true and ElevenLabs configured, the first
\* provider call is the ElevenLabs one; when it raises and an OpenAI client
\* exists, OpenAI is called next with the same text and generate ends with
\* the outcome of that call.
C14_PrimaryFirstThenSecondary ==
    (AudioEntered /\ request.prefer_elevenlabs /\ PrimaryConfigured) =>
        /\ apc = "elevenlabs" \/ attempts # <<>>
        /\ attempts # <<>> => attempts[1].provider = "elevenlabs"
        /\ (PrimaryFailed /\ SecondaryConfigured) =>
              \/ apc = "fallback" /\ Len(attempts) = 1
              \/ /\ apc = "done"
                 /\ Len(attempts) = 2
                 /\ attempts[2].provider = "openai"
                 /\ attempts[2].input = request.text
                 /\ speech = OutcomeOf(attempts[2])

\* ElevenLabs raised, OpenAI was called and its audio was returned.
C14_Witness ==
    /\ apc = "done"
    /\ request.prefer_elevenlabs
    /\ PrimaryFailed
    /\ Len(attempts) = 2
    /\ speech.how = "return"
    /\ speech.audio.provider = "openai"

\* C15: with prefer_elevenlabs true, ElevenLabs configured and no OpenAI
\* client, a failure of the ElevenLabs call ends generate with a ValueError
\* whose message starts with 'ElevenLabs fout en geen OpenAI fallback' and
\* ends with the message of the ElevenLabs error; no other call is made.
C15_NoFallbackWrapsPrimaryError ==
    (request.prefer_elevenlabs /\ PrimaryConfigured /\ ~SecondaryConfigured
        /\ PrimaryFailed) =>
        /\ apc = "done"
        /\ Len(attempts) = 1
        /\ speech.how = "raise"
        /\ speech.etype = "ValueError"
        /\ speech.error = <<"ElevenLabs fout en geen OpenAI fallback: ",
                            attempts[1].outcome.error>>

\* ElevenLabs timed out and there is no OpenAI client.
C15_Witness ==
    /\ apc = "done"
    /\ ~SecondaryConfigured
    /\ PrimaryFailed
    /\ attempts[1].outcome.error = "timeout"
    /\ speech.how = "raise"

\* C16: with prefer_elevenlabs false, or without an ElevenLabs client or
\* voice id, ElevenLabs is never called; the OpenAI client, when there is
\* one, is called first, with the text of the request.
C16_SecondaryDirectly ==
    (AudioEntered /\ (~request.prefer_elevenlabs \/ ~PrimaryConfigured)) =>
        /\ AttemptsOf("elevenlabs") = {}
        /\ apc # "elevenlabs"
        /\ SecondaryConfigured =>
              \/ apc = "openai" /\ attempts = <<>>
              \/ /\ apc = "done"
                 /\ Len(attempts) = 1
                 /\ attempts[1].provider = "openai"
                 /\ attempts[1].input = request.text

\* prefer_elevenlabs is false, both providers are configured, and OpenAI
\* alone was called.
C16_Witness ==
    /\ apc = "done"
    /\ ~request.prefer_elevenlabs
    /\ PrimaryConfigured
    /\ SecondaryConfigured
    /\ Len(attempts) = 1
    /\ attempts[1].provider = "openai"

\* C17: with no OpenAI client and ElevenLabs lacking its client or its
\* voice id, generate raises ValueError 'Geen audio engine beschikbaar...'
\* whatever prefer_elevenlabs is, and calls no provider.
C17_NoProviderAvailable ==
    (AudioEntered /\ ~PrimaryConfigured /\ ~SecondaryConfigured) =>
        /\ apc = "done"
        /\ attempts = <<>>
        /\ speech.how = "raise"
        /\ speech.etype = "ValueError"
        /\ speech.error =
              <<"Geen audio engine beschikbaar. Configureer ElevenLabs of OpenAI API key.">>

\* prefer_elevenlabs is true, there is an ElevenLabs client but no voice id
\* and no OpenAI client, and generate has raised.
C17_Witness ==
    /\ apc = "done"
    /\ request.prefer_elevenlabs
    /\ generator.elevenlabs_client # NoneVal
    /\ ~PrimaryConfigured
    /\ ~SecondaryConfigured
    /\ speech.how = "raise"

\* C18: one generate call makes at most two provider calls, at most one to
\* each provider, never ElevenLabs after OpenAI; and when the OpenAI call
\* raises, generate ends with that exception and that call is the last.
C18_StrictTwoTierFallback ==
    /\ Len(attempts) <= 2
    /\ Cardinality(AttemptsOf("elevenlabs")) <= 1
    /\ Cardinality(AttemptsOf("openai")) <= 1
    /\ \A i \in AttemptsOf("openai") :
          /\ \A j \in AttemptsOf("elevenlabs") : j < i
          /\ i = Len(attempts)
          /\ apc = "done"
          /\ ~attempts[i].outcome.ok =>
                speech = SpeechRaised("Exception", <<attempts[i].outcome.error>>)

\* Both providers were called and both raised.
C18_Witness ==
    /\ apc = "done"
    /\ Len(attempts) = 2
    /\ ~attempts[1].outcome.ok
    /\ ~attempts[2].outcome.ok
    /\ speech.how = "raise"

\* C19: the audio generate returns after a fallback is the audio its
\* OpenAI-only path returns for the same text and the same provider
\* answer: the OpenAI audio for request.text, padded when pydub can pad it.
\* Both paths are held against the same value.
C19_FallbackEqualsSecondaryAlone ==
    (apc = "done" /\ speech.how = "return"
        /\ speech.audio.provider = "openai") =>
        LET last == attempts[Len(attempts)]
            alone == SpeechReturned(
                         AddSilencePadding([provider |-> "openai",
                                            text |-> request.text,
                                            padded |-> FALSE],
                                           last.outcome.pad_ok))
        IN  /\ last.provider = "openai"
            /\ last.input = request.text
            /\ speech = alone

\* ElevenLabs raised and the OpenAI audio came back padded.
C19_Witness ==
    /\ apc = "done"
    /\ PrimaryFailed
    /\ Len(attempts) = 2
    /\ attempts[2].outcome.ok
    /\ attempts[2].outcome.pad_ok
    /\ speech.how = "return"
    /\ speech.audio.padded
    /\ request.text = "Lieve Jan"

\* C29: when ElevenLabs (client and voice id) or OpenAI is configured,
\* generate does not fail before it has called a provider, whatever
\* prefer_elevenlabs is; the ValueError 'Geen audio engine beschikbaar...'
\* is raised only when neither is configured.
C29_ProviderCalledWhenAvailable ==
    (apc = "done" /\ speech.how = "raise"
        /\ (PrimaryConfigured \/ SecondaryConfigured)) =>
        /\ attempts # <<>>
        /\ speech.error #
              <<"Geen audio engine beschikbaar. Configureer ElevenLabs of OpenAI API key.">>

----------------------------------------------------------------------------
(* Properties of the letter *)

\* C20 as stated: for the empty text _process_text returns greeting None
\* and no paragraph at all, and the letter is the closing block alone.
C20_EmptyTextNoParagraphs ==
    (text = <<>> /\ letter.how # "none") =>
        /\ letter.greeting = NoneStr
        /\ letter.paragraphs = <<>>
        /\ letter.how = "rendered" => letter.html = ClosingBlock

\* C20, amended: for the empty text _process_text returns greeting None and
\* one paragraph, the empty str; _build_html skips it, so the letter is
\* the closing block alone.
C20_EmptyTextOneBlankParagraph ==
    (text = <<>> /\ letter.how # "none") =>
        /\ letter.greeting = NoneStr
        /\ letter.paragraphs = << <<>> >>
        /\ letter.how = "rendered" =>
              letter.html = <<HtmlLine("closing", 0, <<"tot", " ", "gauw">>),
                              HtmlLine("signature-line", 0, <<"hoogachtend">>),
                              HtmlLine("signature-name", 0, <<"sinterklaas">>)>>

\* The letter for the empty text has been rendered.
C20_Witness ==
    /\ text = <<>>
    /\ lpc = "done"
    /\ letter.how = "rendered"
    /\ Len(letter.html) = 3

\* The sentences of a cleaned-up str, as _process_text cuts it: split at
\* [.!?]\s+, terminator kept, stripped, blank ones dropped.
SplitSentences(s) == StripSentences(CombineSentences(ReSplit(s)))

\* The sentences of a raw text after the sign-off removal and the clean-up.
SentencesOfText(t) ==
    SplitSentences(
        Strip(Join(<<" ">>,
                   Split(ReSub(ClosingPatterns[3],
                               ReSub(ClosingPatterns[2],
                                     ReSub(ClosingPatterns[1], t)))))))

\* The sentences that remain when the salutation is taken.
BodyOfText(t) ==
    LET ss == SentencesOfText(t) IN IF ss = <<>> THEN <<>> ELSE Tail(ss)

\* How many sentences the paragraph p holds.
SentenceCount(p) == Len(SplitSentences(p))

\* xs[1] \o xs[2] \o ...
RECURSIVE Flatten(_)
Flatten(xs) == IF xs = <<>> THEN <<>> ELSE Head(xs) \o Flatten(Tail(xs))

\* C21: with n sentences after the salutation, _process_text returns one
\* paragraph of n sentences for n <= 2, two paragraphs of 2 and n - 2
\* sentences for n in 3..4, three paragraphs of 2, 2 and n - 4 sentences
\* for n >= 5; for n = 1 the paragraph is that sentence.
C21_ParagraphGrouping ==
    letter.how # "none" =>
        LET body == BodyOfText(text)
            n == Len(body)
            ps == letter.paragraphs
            sizes == [k \in DOMAIN ps |-> SentenceCount(ps[k])]
        IN  /\ n <= 2 => sizes = <<n>>
            /\ n \in 3..4 => sizes = <<2, n - 2>>
            /\ n >= 5 => sizes = <<2, 2, n - 4>>
            /\ n = 1 => ps = <<body[1]>>

\* A letter of a salutation and six sentences, in paragraphs of 2, 2, 2.
C21_Witness ==
    /\ letter.how = "rendered"
    /\ Len(BodyOfText(text)) = 6
    /\ Len(letter.paragraphs) = 3
    /\ \A k \in 1..3 : SentenceCount(letter.paragraphs[k]) = 2

\* The lines of the rendered letter that belong to the closing block.
ClosingLines ==
    {i \in DOMAIN letter.html :
        letter.html[i].cls \in {"closing", "signature-line", "signature-name"}}

\* A match of one of the closing patterns begins somewhere in s.
ContainsSignOff(s) ==
    \E i \in DOMAIN s : \E k \in DOMAIN ClosingPatterns :
        MatchEnd(s, i, ClosingPatterns[k]) > 0

\* A match of one of the closing patterns ends where s ends.
EndsWithSignOff(s) ==
    \E i \in DOMAIN s : \E k \in DOMAIN ClosingPatterns :
        MatchEnd(s, i, ClosingPatterns[k]) = Len(s) + 1

\* C22, amended: every rendered letter ends with the three closing lines
\* and has no other closing line; and when the raw text ends with a known
\* sign-off phrase and has no 'Hoogachtend' before that phrase, no known
\* sign-off phrase is left in the salutation or in a paragraph.
C22_ClosingBlockOnceSignOffStripped ==
    letter.how = "rendered" =>
        LET n == Len(letter.html) IN
        /\ n >= 3
        /\ SubSeq(letter.html, n - 2, n) =
              <<HtmlLine("closing", 0, <<"tot", " ", "gauw">>),
                HtmlLine("signature-line", 0, <<"hoogachtend">>),
                HtmlLine("signature-name", 0, <<"sinterklaas">>)>>
        /\ ClosingLines = {n - 2, n - 1, n}
        /\ \A i \in DOMAIN text : \A k \in DOMAIN ClosingPatterns :
              (/\ MatchEnd(text, i, ClosingPatterns[k]) = Len(text) + 1
               /\ \A h \in 1..(i - 1) : text[h] # "hoogachtend") =>
                  /\ ~ContainsSignOff(letter.greeting.str)
                  /\ \A j \in DOMAIN letter.paragraphs :
                        ~ContainsSignOff(letter.paragraphs[j])

\* A letter of a salutation and three sentences whose raw text ended with
\* the sign-off and had no 'Hoogachtend' before it.
C22_Witness ==
    /\ letter.how = "rendered"
    /\ \E i \in DOMAIN text :
          /\ i > 1
          /\ MatchEnd(text, i, ClosingPatterns[1]) = Len(text) + 1
          /\ \A h \in 1..(i - 1) : text[h] # "hoogachtend"
    /\ Len(text) > Len(SignOff)
    /\ ~letter.greeting.none
    /\ Len(letter.paragraphs) = 2
    /\ Len(letter.html) = 6

\* C22 as stated: every rendered letter ends with the three closing lines
\* and has no other closing line; and when the raw text ends with a known
\* sign-off phrase, no known sign-off phrase is left in the salutation or
\* in a paragraph.
C22_ClosingBlockOnce ==
    letter.how = "rendered" =>
        LET n == Len(letter.html) IN
        /\ n >= 3
        /\ SubSeq(letter.html, n - 2, n) =
              <<HtmlLine("closing", 0, <<"tot", " ", "gauw">>),
                HtmlLine("signature-line", 0, <<"hoogachtend">>),
                HtmlLine("signature-name", 0, <<"sinterklaas">>)>>
        /\ ClosingLines = {n - 2, n - 1, n}
        /\ EndsWithSignOff(text) =>
              /\ ~ContainsSignOff(letter.greeting.str)
              /\ \A k \in DOMAIN letter.paragraphs :
                    ~ContainsSignOff(letter.paragraphs[k])

\* C26: the sentences of the paragraphs, read in order, are the sentences
\* after the salutation; when there is at least one, no paragraph is empty;
\* and every paragraph but the last holds at most two.
C26_SentencesPreserved ==
    letter.how # "none" =>
        LET body == BodyOfText(text)
            ps == letter.paragraphs
        IN  /\ Flatten([k \in DOMAIN ps |-> SplitSentences(ps[k])]) = body
            /\ body # <<>> => \A k \in DOMAIN ps : ps[k] # <<>>
            /\ \A k \in 1..(Len(ps) - 1) : SentenceCount(ps[k]) <= 2

\* A letter whose last paragraph holds three sentences.
C26_Witness ==
    /\ letter.how = "rendered"
    /\ Len(BodyOfText(text)) = 7
    /\ Len(letter.paragraphs) = 3
    /\ SentenceCount(letter.paragraphs[3]) = 3

----------------------------------------------------------------------------
(* Properties of the session state of app.py *)

\* C27: when a completed script run has entered the media-generation block
\* (which it does only with genereer_media true), genereer_media is not
\* true at the end of that run, whatever the final text is.
C27_FlagResetAfterMediaStep ==
    (~rerun /\ run.at = "idle" /\ media.step # "skipped") =>
        session_state.genereer_media # "True"

\* C28: once the click on "Terug naar modus selectie" and the runs it
\* started are over, app_mode, sinterklaas_tekst,
\* sinterklaas_tekst_aangepast and genereer_media are gone from the session
\* state and the page shows the mode selection.
C28_BackClickLeadsToModeSelection ==
    (~rerun /\ run.at = "idle" /\ event = "click_back") =>
        /\ session_state.app_mode = "absent"
        /\ session_state.sinterklaas_tekst.absent
        /\ session_state.sinterklaas_tekst_aangepast.absent
        /\ session_state.genereer_media = "absent"
        /\ {"btn_manual", "btn_auto"} \subseteq Page

============================================================================
